---- MODULE Spec2Model ----
(***************************************************************************)
(* Model of the table engine of src/std: the streaming CSV loader          *)
(* (TableSQL.from_csv), the normalizer (Normalizer.apply), the pipeline    *)
(* compiler (build_pipeline_sql) and the executor (apply_plan,             *)
(* apply_pipeline), over one SQLite connection.                            *)
(*                                                                         *)
(* A stored table is a column list and a sequence of rows; the position of *)
(* a row in the sequence is its SQLite rowid.  A row carries its values    *)
(* (aligned with the column list) and, as a ghost field, the data line of  *)
(* the input file it was read from.                                        *)
(***************************************************************************)
EXTENDS Integers, Sequences, FiniteSets, TLC

\* ------------------------------------------------------------------ bounds
MaxLines == 2      \* data lines after the header in an input file
MaxExec == 2       \* normalizer / executor calls on one connection

\* ------------------------------------------------------------------ values
\* SQLite values: NULL, INTEGER and TEXT, in one record shape.  The content s
\* of a TEXT value is the sequence of its characters.
NullV == [t |-> "null", i |-> 0, s |-> <<>>]
IntV(n) == [t |-> "int", i |-> n, s |-> <<>>]
TextV(x) == [t |-> "text", i |-> 0, s |-> x]

\* The characters of the model, in byte order (BINARY collation).
TextOrder ==
    <<"\t", "\n", " ", ",", "-", ".", "/", "0", "1", "2", "3", "4", "5", "6", "7", "8", "9",
      ":", "?", "A", "E", "I", "K", "N", "O", "S", "T", "V", "W", "Y", "Z", "_",
      "a", "c", "e", "f", "i", "k", "l", "n", "o", "r", "s", "t", "u", "w", "x", "y">>

\* position of a character in that order (0: an identifier kept as one symbol)
TextRank(c) ==
    IF \E k \in 1..Len(TextOrder) : TextOrder[k] = c
    THEN CHOOSE k \in 1..Len(TextOrder) : TextOrder[k] = c
    ELSE 0

\* memcmp order of two texts
RECURSIVE TextLess(_, _)
TextLess(a, b) ==
    IF b = <<>> THEN FALSE
    ELSE IF a = <<>> THEN TRUE
    ELSE IF Head(a) = Head(b) THEN TextLess(Tail(a), Tail(b))
    ELSE TextRank(Head(a)) < TextRank(Head(b))

\* SQLite's cross-type order: NULL < INTEGER < TEXT.
ValLess(a, b) ==
    CASE a.t = "null" -> b.t # "null"
      [] a.t = "int"  -> (b.t = "text") \/ (b.t = "int" /\ a.i < b.i)
      [] OTHER        -> b.t = "text" /\ TextLess(a.s, b.s)

Digits == <<"0", "1", "2", "3", "4", "5", "6", "7", "8", "9">>
IsDigit(c) == \E k \in 1..10 : Digits[k] = c
DigitVal(c) == (CHOOSE k \in 1..10 : Digits[k] = c) - 1

\* str(int) of Python, the decimal text of an integer in SQLite
RECURSIVE IntStr(_)
IntStr(n) ==
    IF n < 0 THEN <<"-">> \o IntStr(0 - n)
    ELSE IF n < 10 THEN <<Digits[n + 1]>>
    ELSE IntStr(n \div 10) \o <<Digits[(n % 10) + 1]>>

\* ------------------------------------------------------------------ text
\* q without the leading and trailing characters that are in S
StripSet(q, S) ==
    LET In == {k \in 1..Len(q) : q[k] \notin S}
    IN IF In = {} THEN <<>>
       ELSE SubSeq(q, CHOOSE k \in In : \A j \in In : k <= j,
                      CHOOSE k \in In : \A j \in In : j <= k)

\* str.strip(): the whitespace of the model
PyStrip(q) == StripSet(q, {" ", "\t", "\n"})

\* str.lower()
Lower(c) ==
    CASE c = "A" -> "a" [] c = "E" -> "e" [] c = "I" -> "i" [] c = "K" -> "k"
      [] c = "N" -> "n" [] c = "O" -> "o" [] c = "S" -> "s" [] c = "T" -> "t"
      [] c = "V" -> "v" [] c = "W" -> "w" [] c = "Y" -> "y" [] c = "Z" -> "z"
      [] OTHER -> c
LowerText(q) == [k \in 1..Len(q) |-> Lower(q[k])]

\* str.replace(a, b) for a single character a and a text b
RECURSIVE ReplaceChar(_, _, _)
ReplaceChar(q, a, b) ==
    IF q = <<>> THEN <<>>
    ELSE (IF Head(q) = a THEN b ELSE <<Head(q)>>) \o ReplaceChar(Tail(q), a, b)

\* re.sub(r"[ ]{2,}", " ", q): a run of spaces becomes one space
RECURSIVE CollapseSpaces(_)
CollapseSpaces(q) ==
    IF Len(q) < 2 THEN q
    ELSE IF q[1] = " " /\ q[2] = " " THEN CollapseSpaces(Tail(q))
    ELSE <<Head(q)>> \o CollapseSpaces(Tail(q))

\* ------------------------------------------------------------------ tables
TableNames == {"t_raw", "t_norm", "t_flt", "t_uq"}

NoTable == [ex |-> FALSE, cols |-> <<>>, rows |-> <<>>]
MkTable(cols, rows) == [ex |-> TRUE, cols |-> cols, rows |-> rows]

EmptyStore == [n \in TableNames |-> NoTable]

SeqToSet(q) == {q[k] : k \in 1..Len(q)}

\* A stored column name: the name n, and the suffix ":k" that CREATE TABLE AS
\* appends to make a repeated name unique (k = 0: no suffix).
Col(name) == [n |-> name, k |-> 0]
Cols(names) == [j \in 1..Len(names) |-> Col(names[j])]

\* First column of that name (SQLite resolves a duplicated name to the
\* leftmost column); 0 when there is none.
FirstIdx(cols, name) ==
    IF Col(name) \in SeqToSet(cols)
    THEN CHOOSE k \in 1..Len(cols) : cols[k] = Col(name) /\ \A j \in 1..(k-1) : cols[j] # Col(name)
    ELSE 0

\* idx = {h: i for i, h in enumerate(header_row)}: the last position wins.
LastIdx(cols, name) ==
    IF name \in SeqToSet(cols)
    THEN CHOOSE k \in 1..Len(cols) : cols[k] = name /\ \A j \in (k+1)..Len(cols) : cols[j] # name
    ELSE 0

SelectSeq2(q, Keep(_)) == SelectSeq(q, Keep)

\* A database file that already holds a table of the loader's destination
\* name (db_path naming an existing database).
OldTable == MkTable(Cols(<<"__src_rownum", "K">>), << [line |-> 0, v |-> <<IntV(1), TextV(<<"y">>)>>] >>)
OldStore == [EmptyStore EXCEPT !["t_raw"] = OldTable]

\* ------------------------------------------------------------------ state
VARIABLES
    store,      \* table name -> table, as the connection sees it
    conn,       \* "none" | "open" | "closed"
    txn,        \* a write transaction is open on the connection
    dqs,        \* the SQLite build reads an unresolvable "name" as a string literal
    handles,    \* the TableSQL objects returned so far
    closedBy,   \* ghost: who made the handle whose close() closed the connection
    loadRes,    \* outcome of from_csv (with its inputs, as ghosts)
    nexec,      \* number of normalizer / executor calls so far
    lastExec,   \* ghost: the last normalizer / executor call and its outcome
    pipeline,   \* Pipeline.steps of the pipeline under construction
    plan        \* result of the last build_pipeline_sql call

vars == <<store, conn, txn, dqs, handles, closedBy, loadRes, nexec, lastExec, pipeline, plan>>

\* ------------------------------------------------------------------ loader
Header == <<"K", "V">>

\* A data line: its fields as csv.reader splits them ("ok"); a line on which
\* building the record raises inside the try block ("recfail"); or a line
\* that csv.reader cannot decode or split, so that next(reader) raises
\* ("undecodable").
OkLines ==
    { [kind |-> "ok", f |-> f] : f \in {<< <<"x">>, <<"x">> >>, << <<"y">>, <<"x">> >>, << <<"x">>, <<"y">> >>, << <<"x">> >>} }
DataLines ==
    OkLines \cup { [kind |-> "recfail", f |-> <<>>], [kind |-> "undecodable", f |-> <<>>] }

RECURSIVE SeqsUpTo(_, _)
SeqsUpTo(S, n) ==
    IF n = 0 THEN {<<>>}
    ELSE LET P == SeqsUpTo(S, n - 1)
         IN P \cup { Append(q, x) : q \in {p \in P : Len(p) = n - 1}, x \in S }

Files ==
    { [empty |-> FALSE, header |-> Header, lines |-> ls] : ls \in SeqsUpTo(DataLines, MaxLines) }
    \cup { [empty |-> TRUE, header |-> <<>>, lines |-> <<>>] }

\* head=None loads every header column; otherwise the listed ones.
NoHead == [given |-> FALSE, cols |-> <<>>]
HeadChoices ==
    { NoHead } \cup
    { [given |-> TRUE, cols |-> c] : c \in {<<"K">>, <<"V", "K">>, <<"K", "Z">>, <<"W", "K", "Z">>} }

Batches == {1, 2}

\* missing = [h for h in read_heads if h not in idx]
MissingHeads_first(read_heads, header) ==
    LET missing == SelectSeq2(read_heads, LAMBDA h : h \notin SeqToSet(header))
    IN  IF missing = <<>> THEN <<>> ELSE <<Head(missing)>>
MissingHeads(read_heads, header) ==
    SelectSeq2(read_heads, LAMBDA h : h \notin SeqToSet(header))

\* [lines] + out: the ordinal stored with a row is the running line count.
RowOrdinal_dense(lines, stored) == stored + 1
RowOrdinal(lines, stored) == lines

\* out = [row[idx[h]] if idx[h] < len(row) else "" for h in read_heads]
RowOut(header, read_heads, f) ==
    [j \in 1..Len(read_heads) |->
        LET k == LastIdx(header, read_heads[j])
        IN IF k <= Len(f) THEN TextV(f[k]) ELSE TextV(<<>>)]

\* One call of a method of the progress sink: it writes its line or not, and
\* returns or raises (a TypeError, or another Exception; "wrote" with an
\* exception is a failure of the flush after the write).
SinkOk == [wrote |-> TRUE, exc |-> "none"]
SinkOutcomes ==
    { SinkOk, [wrote |-> FALSE, exc |-> "TypeError"], [wrote |-> FALSE, exc |-> "Exception"],
      [wrote |-> TRUE, exc |-> "TypeError"], [wrote |-> TRUE, exc |-> "Exception"] }
Sinks == [tick : SinkOutcomes, done : SinkOutcomes]
GoodSink == [tick |-> SinkOk, done |-> SinkOk]
DEFAULT_PROGRESS_EVERY == 300000

\* Progress.tick: the three early returns before the line is written.
Progress_tick_every_line(progress_every_lines, lines_total) ==
    progress_every_lines > 0 /\ lines_total > 0
Progress_tick(progress_every_lines, lines_total) ==
    /\ progress_every_lines > 0
    /\ lines_total > 0
    /\ lines_total % progress_every_lines = 0

\* The exceptions of a sink call that the adapters catch: a TypeError of the
\* keyword call falls through to the positional call, which Progress cannot
\* bind and whose TypeError is caught as an Exception; any other Exception
\* returns at once.
SinkCaught == {"none", "TypeError", "Exception"}

\* _progress_tick: what is written and whether an exception leaves the adapter.
progress_tick(progress_every, sink, lines, bad) ==
    IF ~Progress_tick(progress_every, lines)
    THEN [events |-> <<>>, raised |-> FALSE]
    ELSE [events |-> IF sink.tick.wrote
                     THEN <<[kind |-> "progress", lines |-> lines, bad |-> bad]>> ELSE <<>>,
          raised |-> sink.tick.exc \notin SinkCaught]

\* _progress_done, on Progress.done.
progress_done(sink, lines, bad) ==
    [events |-> IF sink.done.wrote
                THEN <<[kind |-> "done", lines |-> lines, bad |-> bad]>> ELSE <<>>,
     raised |-> sink.done.exc \notin SinkCaught]

\* The body of "for row in reader": st = [n, bad, buf, rows, raised, events]
\* holds the lines consumed, the bad-row count, the pending batch, the rows
\* already inserted, whether an exception left the loop (next(reader) or the
\* progress adapter raised) and what the sink has written.
RECURSIVE ReadRows(_, _, _, _, _, _)
ReadRows(file, read_heads, batch, progress_every, sink, st) ==
    IF st.n = Len(file.lines) THEN st
    ELSE
      LET ln == file.lines[st.n + 1]
          lines == st.n + 1
      IN CASE ln.kind = "undecodable" -> [st EXCEPT !.raised = TRUE]
           [] ln.kind = "recfail" ->
                ReadRows(file, read_heads, batch, progress_every, sink,
                         [st EXCEPT !.n = lines, !.bad = @ + 1])
           [] OTHER ->
                LET ord == RowOrdinal(lines, Len(st.rows) + Len(st.buf))
                    rec == [line |-> lines,
                            v |-> <<IntV(ord)>> \o RowOut(file.header, read_heads, ln.f)]
                    buf1 == Append(st.buf, rec)
                    flush == Len(buf1) >= batch
                    tick == progress_tick(progress_every, sink, lines, st.bad)
                    st1 == [st EXCEPT !.n = lines,
                                      !.buf = IF flush THEN <<>> ELSE buf1,
                                      !.rows = IF flush THEN @ \o buf1 ELSE @,
                                      !.events = @ \o tick.events]
                IN IF tick.raised THEN [st1 EXCEPT !.raised = TRUE]
                   ELSE ReadRows(file, read_heads, batch, progress_every, sink, st1)

\* TableCSV.guess_sep on the decoded sample (a sequence of characters).
SEP_CANDIDATES == <<"\t", ";", ",", "|">>

\* sample.count(c)
CountOf(sample, c) == Cardinality({ i \in 1..Len(sample) : sample[i] = c })

\* key=lambda c: (counts[c], 1 if c == "\t" else 0)
SepKey_tab_first(counts, c) == <<IF c = "\t" THEN 1 ELSE 0, counts[c]>>
SepKey(counts, c) == <<counts[c], IF c = "\t" THEN 1 ELSE 0>>

\* the order of Python tuples of two integers
KeyLess(a, b) == a[1] < b[1] \/ (a[1] = b[1] /\ a[2] < b[2])

\* max(iterable, key=...): the first element whose key no later one exceeds
RECURSIVE MaxFrom(_, _, _)
MaxFrom(counts, i, best) ==
    IF i > Len(SEP_CANDIDATES) THEN best
    ELSE MaxFrom(counts, i + 1,
                 IF KeyLess(SepKey(counts, best), SepKey(counts, SEP_CANDIDATES[i]))
                 THEN SEP_CANDIDATES[i] ELSE best)

guess_sep(sample) ==
    LET counts == [c \in SeqToSet(SEP_CANDIDATES) |-> CountOf(sample, c)]
    IN  MaxFrom(counts, 2, SEP_CANDIDATES[1])

\* status, the counters lines and bad, the names listed by the error, and as
\* ghosts: the number of data lines of the file, how many of them are not
\* "ok", the head argument, the store before the call, the file, the batch
\* size, the progress interval, the sink's behaviour, and the trace of what
\* the sink wrote with the final commit marked in it.
NoFile == [empty |-> TRUE, header |-> <<>>, lines |-> <<>>]
NoLoad ==
    [status |-> "none", lines |-> 0, bad |-> 0, missing |-> <<>>,
     total |-> 0, malformed |-> 0, header |-> <<>>,
     head |-> NoHead, table |-> "t_raw", before |-> EmptyStore,
     file |-> NoFile, batch |-> 0, progress_every |-> 0, sink |-> GoodSink, events |-> <<>>,
     sample |-> <<>>, sep |-> ""]

\* sep = TableCSV.guess_sep(csv_fullpath, encoding=encoding), the first step of
\* from_csv when no delimiter is given; the sample read from the file is in
\* loadRes.sample.
guess(sample) ==
    /\ loadRes.status = "none"
    /\ loadRes.sep = ""
    /\ loadRes.sample = sample
    /\ loadRes' = [loadRes EXCEPT !.sep = guess_sep(sample)]
    /\ UNCHANGED <<store, conn, txn, dqs, handles, closedBy, nexec, lastExec, pipeline, plan>>

\* TableSQL.from_csv, from sqlite3.connect to the returned TableSQL.
from_csv(file, head, table_name, batch, progress_every, sink) ==
    /\ conn = "none"
    /\ LET read_heads == IF head.given THEN head.cols ELSE file.header
           missing == MissingHeads(read_heads, file.header)
           base == [NoLoad EXCEPT !.total = Len(file.lines),
                                  !.malformed = Len(SelectSeq2(file.lines, LAMBDA l : l.kind # "ok")),
                                  !.header = file.header, !.head = head,
                                  !.table = table_name, !.before = store,
                                  !.file = file, !.batch = batch,
                                  !.progress_every = progress_every, !.sink = sink]
           created == [store EXCEPT ![table_name] = MkTable(Cols(<<"__src_rownum">> \o read_heads), <<>>)]
           st == ReadRows(file, read_heads, batch, progress_every, sink,
                          [n |-> 0, bad |-> 0, buf |-> <<>>, rows |-> <<>>, raised |-> FALSE,
                           events |-> <<>>])
           done == progress_done(sink, st.n, st.bad)
       IN
       /\ conn' = "open"
       /\ IF file.empty
          THEN /\ loadRes' = [base EXCEPT !.status = "empty_file"]
               /\ UNCHANGED <<store, txn, handles>>
          ELSE IF Len(missing) > 0
          THEN /\ loadRes' = [base EXCEPT !.status = "missing_head", !.missing = missing]
               /\ UNCHANGED <<store, txn, handles>>
          ELSE IF st.raised
          THEN \* the exception leaves from_csv: BEGIN is still open, the
               \* batches flushed so far are in the table, no TableSQL is returned
               /\ loadRes' = [base EXCEPT !.status = "row_exception",
                                          !.lines = st.n, !.bad = st.bad,
                                          !.events = st.events]
               /\ store' = [created EXCEPT ![table_name].rows = st.rows]
               /\ txn' = TRUE
               /\ UNCHANGED handles
          ELSE IF done.raised
          THEN \* the exception leaves from_csv after conn.commit()
               /\ loadRes' = [base EXCEPT !.status = "done_exception",
                                          !.lines = st.n, !.bad = st.bad,
                                          !.events = st.events \o <<[kind |-> "commit", lines |-> st.n, bad |-> st.bad]>>
                                                       \o done.events]
               /\ store' = [created EXCEPT ![table_name].rows = st.rows \o st.buf]
               /\ txn' = FALSE
               /\ UNCHANGED handles
          ELSE /\ loadRes' = [base EXCEPT !.status = "ok", !.lines = st.n, !.bad = st.bad,
                                          !.before = EmptyStore,
                                          !.events = st.events \o <<[kind |-> "commit", lines |-> st.n, bad |-> st.bad]>>
                                                       \o done.events]
               /\ store' = [created EXCEPT ![table_name].rows = st.rows \o st.buf]
               /\ txn' = FALSE
               /\ handles' = handles \cup {[name |-> table_name, owns |-> TRUE, by |-> "loader"]}
    /\ UNCHANGED <<dqs, closedBy, nexec, lastExec, pipeline, plan>>

\* ------------------------------------------------------------------ pipeline
\* Pipeline methods (table_rule.py): the step each one appends to self.steps.
BlankStep ==
    [op |-> "", head |-> "", val |-> NullV, vals |-> <<>>, mapping |-> <<>>,
     heads |-> <<>>, newhead |-> "", sep |-> <<>>, start |-> NullV, end |-> NullV]

unique_by(head) == [BlankStep EXCEPT !.op = "unique_by", !.head = head]
concat(heads, newhead, sep) ==
    [BlankStep EXCEPT !.op = "concat", !.heads = heads, !.newhead = newhead, !.sep = sep]
where_eq(head, val) == [BlankStep EXCEPT !.op = "where_eq", !.head = head, !.val = val]
where_ne(head, val) == [BlankStep EXCEPT !.op = "where_ne", !.head = head, !.val = val]
where_all_eq(mapping) == [BlankStep EXCEPT !.op = "where_all_eq", !.mapping = mapping]
where_in(head, vals) == [BlankStep EXCEPT !.op = "where_in", !.head = head, !.vals = vals]
where_between(head, start, end) ==
    [BlankStep EXCEPT !.op = "where_between", !.head = head, !.start = start, !.end = end]
\* a tuple whose tag no branch of the compiler knows
unknown_step == [BlankStep EXCEPT !.op = "bogus"]

NoRet == [given |-> FALSE, cols |-> <<>>]
Ret(cols) == [given |-> TRUE, cols |-> cols]

\* add_req / add_der: append unless present
AddUnique(q, h) == IF h \in SeqToSet(q) THEN q ELSE Append(q, h)

RECURSIVE AddAll(_, _)
AddAll(q, hs) == IF hs = <<>> THEN q ELSE AddAll(AddUnique(q, Head(hs)), Tail(hs))

FilterOps == {"where_eq", "where_ne", "where_in", "where_between"}

\* the "for st in steps" loop of _need_cols_from_steps when return_heads is given
RECURSIVE NeedLoop(_, _)
NeedLoop(steps, acc) ==
    IF steps = <<>> \/ ~acc.ok THEN acc
    ELSE LET st == Head(steps)
         IN NeedLoop(Tail(steps),
              CASE st.op = "unique_by" -> [acc EXCEPT !.required = AddUnique(@, st.head)]
                [] st.op = "concat" ->
                     [acc EXCEPT !.required = AddAll(@, st.heads),
                                 !.derived = AddUnique(@, st.newhead)]
                [] st.op \in FilterOps -> [acc EXCEPT !.required = AddUnique(@, st.head)]
                [] st.op = "where_all_eq" ->
                     [acc EXCEPT !.required =
                          AddAll(@, [j \in 1..Len(st.mapping) |-> st.mapping[j][1]])]
                [] OTHER -> [acc EXCEPT !.ok = FALSE])

\* the derived names collected when return_heads is None
RECURSIVE DerivedOnly(_, _)
DerivedOnly(steps, der) ==
    IF steps = <<>> THEN der
    ELSE DerivedOnly(Tail(steps),
                     IF Head(steps).op = "concat" THEN AddUnique(der, Head(steps).newhead) ELSE der)

\* for h in return_heads: the listed columns that are added to required
ListedRequired_none(ret, derived) == <<>>
ListedRequired(ret, derived) ==
    SelectSeq2(ret.cols, LAMBDA h : h \notin {"__rid", "__src_rownum"} /\ h \notin SeqToSet(derived))

need_cols_from_steps(steps, ret) ==
    IF ~ret.given
    THEN [ok |-> TRUE, required |-> <<"*">>, derived |-> DerivedOnly(steps, <<>>)]
    ELSE LET a == NeedLoop(steps, [ok |-> TRUE, required |-> <<>>, derived |-> <<>>])
         IN [a EXCEPT !.required = AddUnique(AddAll(@, ListedRequired(ret, a.derived)), "__src_rownum")]

\* base_cols = [h for h in required_heads if h not in derived_heads]
BaseCols_derived_kept(required, derived) == required
BaseCols(required, derived) == SelectSeq2(required, LAMBDA h : h \notin SeqToSet(derived))

\* base_cols_with_rownum: the select list of the base sub-query after __rid
BaseSelect_rownum_only(base_cols) == <<"__src_rownum">>
BaseSelect(base_cols) ==
    <<"__src_rownum">> \o SelectSeq2(base_cols, LAMBDA h : h # "__src_rownum")

\* final_cols = ["__src_rownum"] + user_cols
FinalCols_ordinal_kept(ret) ==
    <<"__src_rownum">> \o SelectSeq2(ret.cols, LAMBDA h : h # "__rid")
FinalCols(ret) ==
    <<"__src_rownum">> \o SelectSeq2(ret.cols, LAMBDA h : h \notin {"__rid", "__src_rownum"})

KnownOps == FilterOps \cup {"unique_by", "concat", "where_all_eq"}

\* the compile loop reaches "raise ValueError" at a step no branch took
UnknownOp_first_step(steps) == steps # <<>> /\ steps[1].op \notin KnownOps
UnknownOp(steps) == \E k \in 1..Len(steps) : steps[k].op \notin KnownOps

\* for i, st in enumerate(steps, start=1): name = s<i>, "SELECT ... FROM prev",
\* prev = name.  Sub-query 0 is base.
CtePrev_base(i) == 0
CtePrev(i) == i - 1
Ctes(steps) == [i \in 1..Len(steps) |-> [name |-> i, from |-> CtePrev(i), step |-> steps[i]]]

NoPlan ==
    [ok |-> FALSE, err |-> "", col |-> "", star |-> FALSE, base_sel |-> <<>>,
     steps |-> <<>>, ctes |-> <<>>, final_from |-> 0, final_star |-> FALSE, final_cols |-> <<>>,
     required_heads |-> <<>>, return_heads |-> <<>>, derived |-> <<>>, ret |-> NoRet]

\* build_pipeline_sql: the SQLPlan, as the structure of the SQL text it holds (the
\* base select list, one sub-query per step in order, the final select list),
\* or the error raised.
build_pipeline_sql(steps, ret) ==
    LET need == need_cols_from_steps(steps, ret)
        NoPlanRet == [NoPlan EXCEPT !.ret = ret]
    IN IF ~need.ok THEN [NoPlanRet EXCEPT !.err = "unknown_op"]
       ELSE
         LET star == "*" \in SeqToSet(need.required)
             base_cols == IF star THEN <<"*">> ELSE BaseCols(need.required, need.derived)
             final_cols == IF ret.given THEN FinalCols(ret) ELSE <<>>
             untraced == SelectSeq2(final_cols,
                            LAMBDA h : h \notin SeqToSet(base_cols) /\ h \notin SeqToSet(need.derived))
         IN IF UnknownOp(steps)
            THEN [NoPlanRet EXCEPT !.err = "unknown_op"]
            ELSE IF ret.given /\ ~star /\ untraced # <<>>
            THEN [NoPlanRet EXCEPT !.err = "validation", !.col = untraced[1]]
            ELSE [NoPlanRet EXCEPT !.ok = TRUE, !.star = star,
                                !.base_sel = IF star THEN <<>> ELSE BaseSelect(base_cols),
                                !.steps = steps,
                                !.ctes = Ctes(steps),
                                !.final_from = Len(steps),
                                !.final_star = ~ret.given,
                                !.final_cols = final_cols,
                                !.required_heads = base_cols,
                                !.return_heads = final_cols,
                                !.derived = need.derived]

\* ------------------------------------------------------------------ SQL
\* The result of a sub-query: ok = FALSE when SQLite rejects the statement.
ErrRel == [ok |-> FALSE, cols |-> <<>>, rows |-> <<>>]
MkRel(cols, rows) == [ok |-> TRUE, cols |-> cols, rows |-> rows]

\* SQLite gives the columns of a sub-query or of CREATE TABLE AS unique
\* names, left to right: a repeated name n becomes n:1, n:2, ...
RECURSIVE UniqueColsFrom(_, _)
UniqueColsFrom(cols, acc) ==
    IF cols = <<>> THEN acc
    ELSE LET c == Head(cols)
             used == SeqToSet(acc)
             j == CHOOSE j \in 1..(Len(acc) + 1) :
                     /\ [n |-> c.n, k |-> j] \notin used
                     /\ \A i \in 1..(j - 1) : [n |-> c.n, k |-> i] \in used
         IN UniqueColsFrom(Tail(cols),
                           Append(acc, IF c \in used THEN [n |-> c.n, k |-> j] ELSE c))

UniqueCols(cols) == UniqueColsFrom(cols, <<>>)

\* A double-quoted name "h": the leftmost column named h; when there is none,
\* the string literal 'h' on a build with double-quoted string literals (d),
\* else the statement fails with "no such column".
QRef(cols, name, d) == FirstIdx(cols, name) > 0 \/ d
QVal(cols, row, name) ==
    IF FirstIdx(cols, name) > 0 THEN row.v[FirstIdx(cols, name)] ELSE TextV(<<name>>)

\* Comparison of a column with a bound value or literal: the column's
\* affinity converts an integer and its decimal text to the same value.
Canon(v) == IF v.t = "int" THEN TextV(IntStr(v.i)) ELSE v
SqlEq(a, b) == a.t # "null" /\ b.t # "null" /\ Canon(a) = Canon(b)

\* CAST(x AS TEXT) / COALESCE(.., '') / TRIM(..) on the values of the model
CastText(v) == CASE v.t = "null" -> <<>> [] v.t = "int" -> IntStr(v.i) [] OTHER -> v.s
Trim(x) == StripSet(x, {" "})

\* base AS (SELECT rowid AS __rid, ... FROM table)
BaseRel(tbl, p, d) ==
    IF ~tbl.ex THEN ErrRel
    ELSE IF p.star
    THEN MkRel(UniqueCols(<<Col("__rid")>> \o tbl.cols),
               [k \in 1..Len(tbl.rows) |->
                   [line |-> tbl.rows[k].line, v |-> <<IntV(k)>> \o tbl.rows[k].v]])
    ELSE IF \E j \in 1..Len(p.base_sel) : ~QRef(tbl.cols, p.base_sel[j], d) THEN ErrRel
    ELSE MkRel(UniqueCols(<<Col("__rid")>> \o Cols(p.base_sel)),
               [k \in 1..Len(tbl.rows) |->
                   [line |-> tbl.rows[k].line,
                    v |-> <<IntV(k)>> \o
                          [j \in 1..Len(p.base_sel) |-> QVal(tbl.cols, tbl.rows[k], p.base_sel[j])]]])

FilterRel(rel, Keep(_)) == MkRel(rel.cols, SelectSeq(rel.rows, Keep))

\* where_eq: IS NULL for None, else = ?
NullKeep_eq_param(x) == SqlEq(x, NullV)
NullKeep(x) == x.t = "null"

EvalWhereEq(rel, st, d) ==
    IF ~QRef(rel.cols, st.head, d) THEN ErrRel
    ELSE IF st.val.t = "null"
    THEN FilterRel(rel, LAMBDA r : NullKeep(QVal(rel.cols, r, st.head)))
    ELSE FilterRel(rel, LAMBDA r : SqlEq(QVal(rel.cols, r, st.head), st.val))

\* where_ne: IS NOT NULL, or IS NOT NULL AND <> ?
NeKeep_null_included(x, val) == x.t = "null" \/ ~SqlEq(x, val)
NeKeep(x, val) == x.t # "null" /\ ~SqlEq(x, val)

EvalWhereNe(rel, st, d) ==
    IF ~QRef(rel.cols, st.head, d) THEN ErrRel
    ELSE IF st.val.t = "null"
    THEN FilterRel(rel, LAMBDA r : QVal(rel.cols, r, st.head).t # "null")
    ELSE FilterRel(rel, LAMBDA r : NeKeep(QVal(rel.cols, r, st.head), st.val))

\* where_all_eq
EvalWhereAllEq(rel, st, d) ==
    IF \E j \in 1..Len(st.mapping) : ~QRef(rel.cols, st.mapping[j][1], d) THEN ErrRel
    ELSE FilterRel(rel, LAMBDA r :
            \A j \in 1..Len(st.mapping) :
               LET x == QVal(rel.cols, r, st.mapping[j][1])
               IN IF st.mapping[j][2].t = "null" THEN x.t = "null" ELSE SqlEq(x, st.mapping[j][2]))

\* where_in: WHERE 1=0 for an empty list, else IN (?, ...)
InKeep_first_only(x, vals) == SqlEq(x, vals[1])
InKeep(x, vals) == \E j \in 1..Len(vals) : SqlEq(x, vals[j])

EvalWhereIn(rel, st, d) ==
    IF st.vals = <<>> THEN MkRel(rel.cols, <<>>)
    ELSE IF ~QRef(rel.cols, st.head, d) THEN ErrRel
    ELSE FilterRel(rel, LAMBDA r : InKeep(QVal(rel.cols, r, st.head), st.vals))

\* DATE(x) for a text x: 'YYYY-MM-DD', alone or followed by blanks or 'T' and
\* a time HH:MM or HH:MM:SS, gives the text 'YYYY-MM-DD'; anything else gives
\* NULL.  (Days are taken as they are written, up to 31; the other forms
\* DATE() accepts - a time alone, a julian day number, 'now' - are not
\* among the values used here.)
DigitsAt(q, S) == \A k \in S : IsDigit(q[k])
TwoDigits(q, k) == 10 * DigitVal(q[k]) + DigitVal(q[k + 1])
SkipSet(q, S) ==
    LET Out == {k \in 1..Len(q) : q[k] \notin S}
    IN IF Out = {} THEN <<>> ELSE SubSeq(q, CHOOSE k \in Out : \A j \in Out : k <= j, Len(q))
TimeOk(t) ==
    /\ Len(t) \in {5, 8}
    /\ DigitsAt(t, {1, 2, 4, 5}) /\ t[3] = ":"
    /\ TwoDigits(t, 1) <= 24 /\ TwoDigits(t, 4) <= 59
    /\ Len(t) = 8 => (t[6] = ":" /\ DigitsAt(t, {7, 8}) /\ TwoDigits(t, 7) <= 59)
SqlDate(q) ==
    IF Len(q) < 10 THEN NullV
    ELSE IF /\ DigitsAt(q, {1, 2, 3, 4, 6, 7, 9, 10}) /\ q[5] = "-" /\ q[8] = "-"
            /\ TwoDigits(q, 6) \in 1..12 /\ TwoDigits(q, 9) \in 1..31
            /\ LET rest == SkipSet(SubSeq(q, 11, Len(q)), {" ", "\t", "\n", "T"})
               IN rest = <<>> \/ TimeOk(rest)
    THEN TextV(SubSeq(q, 1, 10))
    ELSE NullV

\* DATE(REPLACE(TRIM(COALESCE(CAST(h AS TEXT), '')), '/', '-'))
ColDate(x) == SqlDate(ReplaceChar(Trim(CastText(x)), "/", <<"-">>))

\* a >= b, a <= b on the results of DATE(): NULL compares to nothing
DateLe(a, b) == a.t # "null" /\ b.t # "null" /\ (a = b \/ TextLess(a.s, b.s))

\* start is not None and str(start).strip() != ""
Enforced(b) == b.t # "null" /\ PyStrip(CastText(b)) # <<>>

\* where_between: one condition per enforced bound, WHERE 1=1 without any
EvalWhereBetween(rel, st, d) ==
    IF (Enforced(st.start) \/ Enforced(st.end)) /\ ~QRef(rel.cols, st.head, d) THEN ErrRel
    ELSE FilterRel(rel, LAMBDA r :
            LET x == ColDate(QVal(rel.cols, r, st.head))
            IN /\ Enforced(st.start) => DateLe(SqlDate(CastText(st.start)), x)
               /\ Enforced(st.end) => DateLe(x, SqlDate(CastText(st.end))))

\* concat: TRIM(COALESCE(CAST(h AS TEXT), '')) joined by the separator
\* if j > 0 and sep: the separator goes before every part but the first
SepBefore_nonempty_only(parts, sep, j) == IF j > 1 /\ sep # <<>> /\ parts[j] # <<>> THEN sep ELSE <<>>
SepBefore(parts, sep, j) == IF j > 1 /\ sep # <<>> THEN sep ELSE <<>>

RECURSIVE JoinParts(_, _, _)
JoinParts(parts, sep, j) ==
    IF j > Len(parts) THEN <<>>
    ELSE SepBefore(parts, sep, j) \o parts[j] \o JoinParts(parts, sep, j + 1)

EvalConcat(rel, st, d) ==
    IF \E j \in 1..Len(st.heads) : ~QRef(rel.cols, st.heads[j], d) THEN ErrRel
    ELSE MkRel(UniqueCols(Append(rel.cols, Col(st.newhead))),
               [k \in 1..Len(rel.rows) |->
                   [rel.rows[k] EXCEPT !.v =
                       Append(@, TextV(JoinParts(
                           [j \in 1..Len(st.heads) |->
                               Trim(CastText(QVal(rel.cols, rel.rows[k], st.heads[j])))],
                           st.sep, 1)))]])

\* unique_by: ROW_NUMBER() OVER (PARTITION BY h ORDER BY __src_rownum, __rid)
\* AS __rn, then WHERE __rn = 1.  The window step emits the rows sorted by
\* (h, __src_rownum, __rid).
\* ORDER BY __src_rownum ASC, __rid ASC inside one partition
WindowOrder_rid_only(o1, i1, o2, i2) == ValLess(i1, i2)
WindowOrder(o1, i1, o2, i2) == ValLess(o1, o2) \/ (o1 = o2 /\ ValLess(i1, i2))

\* order of the items [key, ord, rid, row] the window step sorts
ItemLess(a, b) ==
    \/ ValLess(a.key, b.key)
    \/ a.key = b.key /\ WindowOrder(a.ord, a.rid, b.ord, b.rid)

RECURSIVE InsertSorted(_, _)
InsertSorted(q, r) ==
    IF q = <<>> THEN <<r>>
    ELSE IF ItemLess(r, Head(q)) THEN <<r>> \o q
    ELSE <<Head(q)>> \o InsertSorted(Tail(q), r)

RECURSIVE SortItems(_)
SortItems(q) ==
    IF q = <<>> THEN <<>> ELSE InsertSorted(SortItems(Tail(q)), Head(q))

\* WHERE __rn = 1
RankKept_not_first(v) == ~SqlEq(v, IntV(1))
RankKept(v) == SqlEq(v, IntV(1))

EvalUniqueBy(rel, st, d) ==
    IF \/ ~QRef(rel.cols, st.head, d)
       \/ FirstIdx(rel.cols, "__src_rownum") = 0
       \/ FirstIdx(rel.cols, "__rid") = 0
    THEN ErrRel
    ELSE
      LET items == [k \in 1..Len(rel.rows) |->
                      [key |-> QVal(rel.cols, rel.rows[k], st.head),
                       ord |-> QVal(rel.cols, rel.rows[k], "__src_rownum"),
                       rid |-> QVal(rel.cols, rel.rows[k], "__rid"),
                       row |-> rel.rows[k]]]
          sorted == SortItems(items)
          rn(k) == 1 + Cardinality({j \in 1..(k - 1) : sorted[j].key = sorted[k].key})
          cols2 == UniqueCols(Append(rel.cols, Col("__rn")))
          numbered == [k \in 1..Len(sorted) |->
                         [sorted[k].row EXCEPT !.v = Append(@, IntV(rn(k)))]]
      IN MkRel(cols2, SelectSeq(numbered, LAMBDA r : RankKept(QVal(cols2, r, "__rn"))))

EvalStep(rel, st, d) ==
    CASE st.op = "where_eq" -> EvalWhereEq(rel, st, d)
      [] st.op = "where_ne" -> EvalWhereNe(rel, st, d)
      [] st.op = "where_all_eq" -> EvalWhereAllEq(rel, st, d)
      [] st.op = "where_in" -> EvalWhereIn(rel, st, d)
      [] st.op = "where_between" -> EvalWhereBetween(rel, st, d)
      [] st.op = "concat" -> EvalConcat(rel, st, d)
      [] st.op = "unique_by" -> EvalUniqueBy(rel, st, d)

\* s1, s2, ...: sub-query i evaluated on the sub-query it reads from
RECURSIVE CteRel(_, _, _, _)
CteRel(base, ctes, i, d) ==
    IF i = 0 THEN base
    ELSE LET rel == CteRel(base, ctes, ctes[i].from, d)
         IN IF ~rel.ok THEN rel ELSE EvalStep(rel, ctes[i].step, d)

\* the final SELECT
FinalRel(rel, p, d) ==
    IF ~rel.ok \/ p.final_star THEN rel
    ELSE IF \E j \in 1..Len(p.final_cols) : ~QRef(rel.cols, p.final_cols[j], d) THEN ErrRel
    ELSE MkRel(UniqueCols(Cols(p.final_cols)),
               [k \in 1..Len(rel.rows) |->
                   [rel.rows[k] EXCEPT !.v =
                       [j \in 1..Len(p.final_cols) |-> QVal(rel.cols, rel.rows[k], p.final_cols[j])]]])

\* WITH base AS (...), s1 AS (...), ... SELECT ... run on table tbl
ExecPlan(tbl, p, d) == FinalRel(CteRel(BaseRel(tbl, p, d), p.ctes, p.final_from, d), p, d)

\* ------------------------------------------------------------------ close
\* TableSQL.close
close(h) ==
    /\ h \in handles
    /\ IF h.owns /\ conn = "open"
       THEN /\ conn' = "closed"
            /\ closedBy' = h.by
            /\ txn' = FALSE
       ELSE UNCHANGED <<conn, closedBy, txn>>
    /\ handles' = handles \ {h}
    /\ UNCHANGED <<store, dqs, loadRes, nexec, lastExec, pipeline, plan>>

\* ------------------------------------------------------------------ executor
\* The last normalizer / executor call: its arguments, whether it returned a
\* table, the error otherwise ("build": build_pipeline_sql raised, "closed":
\* the connection is closed, "query": SQLite rejected the compiled query,
\* "exists": the destination exists, "nocols": the source has no columns,
\* and the source and destination tables as they were before the call.
NoExec ==
    [stage |-> "none", src |-> "", dest |-> "", drop |-> FALSE, ok |-> FALSE, err |-> "",
     steps |-> <<>>, ret |-> NoRet, input |-> NoTable, destBefore |-> NoTable,
     prev |-> [stage |-> "none", src |-> "", dest |-> "", ok |-> FALSE,
               steps |-> <<>>, ret |-> NoRet]]

\* ghost: what the call before this one was
PrevOf(e) ==
    [stage |-> e.stage, src |-> e.src, dest |-> e.dest, ok |-> e.ok, steps |-> e.steps, ret |-> e.ret]

\* the TableSQL that apply_plan returns
PlanHandle_owning(out) == [name |-> out, owns |-> TRUE, by |-> "executor"]
PlanHandle(out) == [name |-> out, owns |-> FALSE, by |-> "executor"]

\* if drop_if_exists: DROP TABLE IF EXISTS out
AfterDrop_never(st, out, drop) == st
AfterDrop(st, out, drop) == IF drop THEN [st EXCEPT ![out] = NoTable] ELSE st

\* apply_plan, from DROP TABLE IF EXISTS to the returned TableSQL
RunPlan(stage, h, p, steps, ret, out, drop) ==
    LET dropped == AfterDrop(store, out, drop)
        res == ExecPlan(dropped[h.name], p, dqs)
        call == [NoExec EXCEPT !.stage = stage, !.src = h.name, !.dest = out, !.drop = drop,
                               !.steps = steps, !.ret = ret, !.prev = PrevOf(lastExec),
                               !.input = store[h.name], !.destBefore = store[out]]
    IN
    /\ nexec' = nexec + 1
    /\ IF conn # "open"
       THEN /\ lastExec' = [call EXCEPT !.err = "closed"]
            /\ UNCHANGED <<store, txn, handles>>
       ELSE IF ~res.ok \/ dropped[out].ex
       THEN /\ lastExec' = [call EXCEPT !.err = IF ~res.ok THEN "query" ELSE "exists"]
            /\ store' = dropped
            /\ UNCHANGED <<txn, handles>>
       ELSE /\ lastExec' = [call EXCEPT !.ok = TRUE]
            /\ store' = [dropped EXCEPT ![out] = MkTable(res.cols, res.rows)]
            /\ txn' = FALSE
            /\ handles' = handles \cup {PlanHandle(out)}
    /\ UNCHANGED <<conn, dqs, closedBy, loadRes, pipeline, plan>>

\* apply_plan(table, plan, out_table_name=out, drop_if_exists=drop), on a plan
\* that build_pipeline_sql(steps, return_heads=ret) returned
apply_plan(h, steps, ret, out, drop) ==
    /\ h \in handles
    /\ nexec < MaxExec
    /\ build_pipeline_sql(steps, ret).ok
    /\ RunPlan("apply_plan", h, build_pipeline_sql(steps, ret), steps, ret, out, drop)

\* apply_pipeline(table, pipeline, out_table_name=out, return_heads=ret)
apply_pipeline(h, steps, ret, out) ==
    /\ h \in handles
    /\ nexec < MaxExec
    /\ LET p == build_pipeline_sql(steps, ret)
       IN IF p.ok
          THEN RunPlan("apply_pipeline", h, p, steps, ret, out, TRUE)
          ELSE /\ nexec' = nexec + 1
               /\ lastExec' = [NoExec EXCEPT !.stage = "apply_pipeline", !.src = h.name,
                                             !.dest = out, !.drop = TRUE, !.err = "build",
                                             !.steps = steps, !.ret = ret,
                                             !.prev = PrevOf(lastExec),
                                             !.input = store[h.name], !.destBefore = store[out]]
               /\ UNCHANGED <<store, conn, txn, dqs, handles, closedBy, loadRes, pipeline, plan>>


\* ------------------------------------------------------------------ normalizer
ERROR_INT == -1
ERROR_TEXT == <<"-", "1">>
MISSING_TOKENS ==
    { <<>>, <<"-", "1">>, <<"e", "r", "r", "o", "r">>, <<"e", "r", "r">>,
      <<"u", "n", "k", "n", "o", "w", "n">>, <<"n", "a">>, <<"n", "/", "a">>, <<"n", "a", "n">>,
      <<"n", "u", "l", "l">>, <<"n", "o", "n", "e">>, <<"?">> }
INT_COLS_EXPLICIT_with_plain ==
    {"Explicitely_Disclosed", "Normalized_Patent", "2G", "3G", "4G", "5G", "DECL_IS_PROP_FLAG",
     "LICD_DEC_PREP_TO_GRANT_FLAG", "LICD_REC_CONDI_FLAG", "Ess_To_Standard", "Ess_To_Project", "K"}
INT_COLS_EXPLICIT ==
    {"Explicitely_Disclosed", "Normalized_Patent", "2G", "3G", "4G", "5G", "DECL_IS_PROP_FLAG",
     "LICD_DEC_PREP_TO_GRANT_FLAG", "LICD_REC_CONDI_FLAG", "Ess_To_Standard", "Ess_To_Project"}
BOOL01_COLS_EXPLICIT ==
    {"Explicitely_Disclosed", "Normalized_Patent", "2G", "3G", "4G", "5G", "DECL_IS_PROP_FLAG",
     "LICD_DEC_PREP_TO_GRANT_FLAG", "LICD_REC_CONDI_FLAG", "Ess_To_Standard", "Ess_To_Project"}
DATE_ONLY_COLS == {"IPRD_SIGNATURE_DATE", "Reflected_Date", "PBPA_APP_DATE"}
FORCE_TEXT_COLS == DATE_ONLY_COLS
COL_COMP_LEGAL_NAME == "COMP_LEGAL_NAME"

\* str.strip().lower()
StripLower(x) == LowerText(PyStrip(x))

\* _is_missing_text
is_missing_text(x) == StripLower(x) \in MISSING_TOKENS

\* Normalization.data_normalization_method, one value: line breaks to
\* spaces, strip, tabs to spaces, runs of spaces collapsed
data_normalization_method_tabs_last(x) ==
    ReplaceChar(CollapseSpaces(PyStrip(ReplaceChar(x, "\n", <<" ">>))), "\t", <<" ">>)
data_normalization_method(x) ==
    CollapseSpaces(ReplaceChar(PyStrip(ReplaceChar(x, "\n", <<" ">>)), "\t", <<" ">>))

\* the COMP_LEGAL_NAME step: ',' and '.' removed, strip, runs of spaces collapsed
comp_legal_name(x) ==
    CollapseSpaces(PyStrip(ReplaceChar(ReplaceChar(x, ",", <<>>), ".", <<>>)))

\* int(mo):02d for a text of one or two digits
Pad2(ds) == IF Len(ds) = 1 THEN <<"0">> \o ds ELSE ds

AllDigits(q) == \A k \in 1..Len(q) : IsDigit(q[k])

\* re.fullmatch(r"(\d{4})-(\d{1,2})-(\d{1,2})", q): the three groups, or <<>>
DateGroups(q) ==
    LET dash == {k \in 1..Len(q) : q[k] = "-"}
    IN IF /\ Cardinality(dash) = 2
          /\ 5 \in dash
          /\ \E k \in dash : k \in {7, 8} /\ Len(q) - k \in {1, 2}
          /\ \A k \in (1..Len(q)) \ dash : IsDigit(q[k])
       THEN LET k2 == CHOOSE k \in dash : k # 5
            IN <<SubSeq(q, 1, 4), SubSeq(q, 6, k2 - 1), SubSeq(q, k2 + 1, Len(q))>>
       ELSE <<>>

\* _date_only
date_only(v) ==
    LET s0 == PyStrip(v)
        cut == {k \in 1..Len(s0) : s0[k] \in {" ", "T"}}
        tok == IF cut = {} THEN s0
               ELSE SubSeq(s0, 1, (CHOOSE k \in cut : \A j \in cut : k <= j) - 1)
        s == ReplaceChar(ReplaceChar(PyStrip(tok), "/", <<"-">>), ".", <<"-">>)
        g == DateGroups(s)
    IN IF is_missing_text(s0) THEN <<>>
       ELSE IF Len(s) = 8 /\ AllDigits(s)
       THEN SubSeq(s, 1, 4) \o <<"-">> \o SubSeq(s, 5, 6) \o <<"-">> \o SubSeq(s, 7, 8)
       ELSE IF g # <<>> THEN g[1] \o <<"-">> \o Pad2(g[2]) \o <<"-">> \o Pad2(g[3])
       ELSE s

\* Normalization.yn01e_to_int: the sets yes and no, and the conversion
YnYes == { <<"1">>, <<"y", "e", "s">>, <<"y">>, <<"t", "r", "u", "e">>, <<"t">>, <<"o", "n">> }
YnNo_with_empty ==
    { <<"0">>, <<"n", "o">>, <<"n">>, <<"f", "a", "l", "s", "e">>, <<"f">>, <<"o", "f", "f">>, <<>> }
YnNo == { <<"0">>, <<"n", "o">>, <<"n">>, <<"f", "a", "l", "s", "e">>, <<"f">>, <<"o", "f", "f">> }

yn01e_to_int_case_sensitive(x) ==
    IF PyStrip(x) \in YnYes THEN 1
    ELSE IF PyStrip(x) \in YnNo THEN 0
    ELSE ERROR_INT
yn01e_to_int(x) ==
    IF StripLower(x) \in YnYes THEN 1
    ELSE IF StripLower(x) \in YnNo THEN 0
    ELSE ERROR_INT

\* int(s) on a text of digits with an optional sign
RECURSIVE DigitsVal(_, _)
DigitsVal(q, acc) == IF q = <<>> THEN acc ELSE DigitsVal(Tail(q), 10 * acc + DigitVal(Head(q)))

\* Normalization.parse_int_or_error
parse_int_or_error(x) ==
    LET s == PyStrip(x)
        neg == s # <<>> /\ Head(s) = "-"
        ds == IF s # <<>> /\ Head(s) \in {"-", "+"} THEN Tail(s) ELSE s
    IN IF s = <<>> \/ LowerText(s) \in MISSING_TOKENS \/ ds = <<>> \/ ~AllDigits(ds) THEN ERROR_INT
       ELSE IF neg THEN 0 - DigitsVal(ds, 0) ELSE DigitsVal(ds, 0)

\* "" if the value is None else str(value)
PyStr(v) == CASE v.t = "null" -> <<>> [] v.t = "int" -> IntStr(v.i) [] OTHER -> v.s

\* the value stored for column c (one of cols_to_normalize)
NormValue(c, v) ==
    LET x0 == data_normalization_method(PyStr(v))
        x1 == IF c.k = 0 /\ c.n = COL_COMP_LEGAL_NAME THEN comp_legal_name(x0) ELSE x0
        x == IF c.k = 0 /\ c.n \in DATE_ONLY_COLS THEN date_only(x1) ELSE x1
    IN IF c.k = 0 /\ c.n \in INT_COLS_EXPLICIT /\ c.n \notin FORCE_TEXT_COLS
       THEN IF c.n \in BOOL01_COLS_EXPLICIT THEN IntV(yn01e_to_int(x))
            ELSE IntV(parse_int_or_error(x))
       ELSE IF is_missing_text(x) THEN TextV(ERROR_TEXT) ELSE TextV(x)

\* out_row.append(src_rownum_val): the ordinal is copied from the source row
NormOrdinal_renumbered(v, lines) == IntV(lines)
NormOrdinal(v, lines) == v

\* SELECT ... ORDER BY __src_rownum: rows by ordinal, then by rowid
RECURSIVE InsertByOrd(_, _)
InsertByOrd(q, r) ==
    IF q = <<>> THEN <<r>>
    ELSE IF ValLess(r.ord, Head(q).ord) \/ (r.ord = Head(q).ord /\ r.rid < Head(q).rid)
    THEN <<r>> \o q
    ELSE <<Head(q)>> \o InsertByOrd(Tail(q), r)

RECURSIVE SortByOrd(_)
SortByOrd(q) == IF q = <<>> THEN <<>> ELSE InsertByOrd(SortByOrd(Tail(q)), Head(q))

\* the TableSQL that Normalizer.apply returns
NormHandle(out) == [name |-> out, owns |-> FALSE, by |-> "normalizer"]

\* Normalizer.apply(raw, out_table_name=out), with drop_if_exists at its default.
\* fail_at is the row (in read order) whose INSERT raises in executemany, 0 for
\* none: a data_norm callable that returns too few values for that row, a
\* full disk.  executemany has inserted the rows before it.
Normalizer_apply(h, out, fail_at) ==
    /\ h \in handles
    /\ nexec < MaxExec
    /\ nexec' = nexec + 1
    /\ LET raw == store[h.name]
           cols == raw.cols
           call == [NoExec EXCEPT !.stage = "normalize", !.src = h.name, !.dest = out,
                                  !.drop = TRUE, !.prev = PrevOf(lastExec),
                                  !.input = raw, !.destBefore = store[out]]
           ci == FirstIdx(cols, "__src_rownum")
           norm_idx == SelectSeq2([j \in 1..Len(cols) |-> j], LAMBDA j : cols[j] # Col("__src_rownum"))
           out_cols == (IF ci > 0 THEN <<Col("__src_rownum")>> ELSE <<>>)
                       \o [j \in 1..Len(norm_idx) |-> cols[norm_idx[j]]]
           \* the source is read after the destination was dropped and created
           created == [store EXCEPT ![out] = MkTable(out_cols, <<>>)]
           src_rows == created[h.name].rows
           read == IF ci > 0
                   THEN LET items == [k \in 1..Len(src_rows) |->
                                        [ord |-> src_rows[k].v[ci], rid |-> k, row |-> src_rows[k]]]
                            sorted == SortByOrd(items)
                        IN [k \in 1..Len(sorted) |-> sorted[k].row]
                   ELSE src_rows
           out_rows == [k \in 1..Len(read) |->
                          [line |-> read[k].line,
                           v |-> (IF ci > 0 THEN <<NormOrdinal(read[k].v[ci], k)>> ELSE <<>>)
                                 \o [j \in 1..Len(norm_idx) |->
                                        NormValue(cols[norm_idx[j]], read[k].v[norm_idx[j]])]]]
       IN IF conn # "open"
          THEN /\ lastExec' = [call EXCEPT !.err = "closed"]
               /\ UNCHANGED <<store, txn, handles>>
          ELSE IF ~raw.ex \/ cols = <<>>
          THEN /\ lastExec' = [call EXCEPT !.err = "nocols"]
               /\ UNCHANGED <<store, txn, handles>>
          ELSE IF txn
          THEN \* conn.execute("BEGIN") raises inside the transaction an
               \* earlier stage left open; the destination is already created
               /\ lastExec' = [call EXCEPT !.err = "begin"]
               /\ store' = created
               /\ UNCHANGED <<txn, handles>>
          ELSE IF fail_at \in 1..Len(out_rows)
          THEN \* the exception leaves apply: no rollback, no TableSQL
               /\ lastExec' = [call EXCEPT !.err = "insert"]
               /\ store' = [created EXCEPT ![out].rows = SubSeq(out_rows, 1, fail_at - 1)]
               /\ txn' = TRUE
               /\ UNCHANGED handles
          ELSE /\ lastExec' = [call EXCEPT !.ok = TRUE]
               /\ store' = [created EXCEPT ![out].rows = out_rows]
               /\ txn' = FALSE
               /\ handles' = handles \cup {NormHandle(out)}
    /\ UNCHANGED <<conn, dqs, closedBy, loadRes, pipeline, plan>>

Init ==
    /\ store \in {EmptyStore, OldStore}
    /\ conn = "none"
    /\ txn = FALSE
    /\ dqs \in BOOLEAN
    /\ handles = {}
    /\ closedBy = "none"
    /\ loadRes = NoLoad
    /\ nexec = 0
    /\ lastExec = NoExec
    /\ pipeline = <<>>
    /\ plan = NoPlan

\* ------------------------------------------------------------------ the flow
\* get(csv) -> normal(raw) -> apply_pipeline / apply_plan ... -> close, on the
\* input files, pipelines, output lists and destination names below.
FLOW_FILES ==
    { [empty |-> FALSE, header |-> Header, lines |-> ls] :
        ls \in { << [kind |-> "ok", f |-> << <<"x">>, <<"x">> >>], [kind |-> "ok", f |-> << <<"y">>, <<"x">> >>],
                    [kind |-> "ok", f |-> << <<"x">>, <<"y">> >>] >>,
                 << [kind |-> "recfail", f |-> <<>>], [kind |-> "ok", f |-> << <<"y">>, <<"x">> >>],
                    [kind |-> "ok", f |-> << <<"x">> >>] >>,
                 << [kind |-> "ok", f |-> << <<"x">>, <<"x">> >>], [kind |-> "ok", f |-> << <<"y">>, <<"x">> >>],
                    [kind |-> "undecodable", f |-> <<>>] >> } }

FLOW_STEPS ==
    { <<unique_by("K")>>, <<unique_by("V")>>, <<where_ne("K", TextV(<<"x">>))>>,
      <<where_eq("Z", TextV(<<"x">>))>>, <<unique_by("K"), unique_by("V")>> }
FLOW_RETS == { NoRet, Ret(<<"K">>) }
PLAN_STEPS == { <<unique_by("K")>>, <<where_eq("Z", TextV(<<"x">>))>> }
NORM_FAILS == {0, 2}

Next ==
    \/ \E file \in FLOW_FILES : from_csv(file, NoHead, "t_raw", 2, DEFAULT_PROGRESS_EVERY, GoodSink)
    \/ \E h \in handles, f \in NORM_FAILS : Normalizer_apply(h, "t_norm", f)
    \/ \E h \in handles, st \in FLOW_STEPS, ret \in FLOW_RETS, out \in {"t_flt", "t_uq"} :
          apply_pipeline(h, st, ret, out)
    \/ \E h \in handles, st \in PLAN_STEPS, drop \in BOOLEAN :
          \E out \in {h.name, "t_uq"} : apply_plan(h, st, NoRet, out, drop)
    \/ \E h \in handles : close(h)

Spec == Init /\ [][Next]_vars

\* ------------------------------------------------------------------ the loader alone
NextLoad ==
    \/ \E file \in Files, head \in HeadChoices, b \in Batches :
          from_csv(file, head, "t_raw", b, DEFAULT_PROGRESS_EVERY, GoodSink)
    \/ \E h \in handles : close(h)

SpecLoad == Init /\ [][NextLoad]_vars

\* ------------------------------------------------------------------ the loader's progress
\* from_csv with a small progress interval and every behaviour of the sink.
PROGRESS_EVERY == {1, 2, 3}
PROGRESS_LINES ==
    { [kind |-> "ok", f |-> << <<"x">>, <<"y">> >>], [kind |-> "recfail", f |-> <<>>],
      [kind |-> "undecodable", f |-> <<>>] }
PROGRESS_FILES ==
    { [empty |-> FALSE, header |-> Header, lines |-> ls] : ls \in SeqsUpTo(PROGRESS_LINES, MaxLines) }
    \cup { [empty |-> TRUE, header |-> <<>>, lines |-> <<>>] }
NextProgress ==
    \/ \E file \in PROGRESS_FILES, b \in Batches, n \in PROGRESS_EVERY, sink \in Sinks :
          from_csv(file, NoHead, "t_raw", b, n, sink)
    \/ \E h \in handles : close(h)

SpecProgress == Init /\ [][NextProgress]_vars

\* ------------------------------------------------------------------ the delimiter guess
\* guess_sep on every sample of up to MaxSample characters.
MaxSample == 3
SAMPLE_CHARS == {"\t", ";", ",", "|", "a"}
Samples == SeqsUpTo(SAMPLE_CHARS, MaxSample)
InitSep ==
    /\ store = EmptyStore
    /\ conn = "none"
    /\ txn = FALSE
    /\ dqs = FALSE
    /\ handles = {}
    /\ closedBy = "none"
    /\ loadRes \in { [NoLoad EXCEPT !.sample = smp] : smp \in Samples }
    /\ nexec = 0
    /\ lastExec = NoExec
    /\ pipeline = <<>>
    /\ plan = NoPlan

NextSep == \E smp \in Samples : guess(smp)

SpecSep == InitSep /\ [][NextSep]_vars
\* ------------------------------------------------------------------ the compiler alone
\* A caller appends steps to one Pipeline and compiles it; no table is touched.
MaxSteps == 2      \* steps appended to one pipeline

BUILD_HEADS == {"K", "C"}
BUILD_VALS == {NullV, TextV(<<"x">>)}
BUILD_RETS ==
    { NoRet, Ret(<<"K">>), Ret(<<"C", "V">>), Ret(<<"__rid", "K", "__src_rownum">>), Ret(<<>>) }

\* Pipeline.<method>: self.steps.append(step)
Append_step(st) ==
    /\ Len(pipeline) < MaxSteps
    /\ pipeline' = Append(pipeline, st)
    /\ UNCHANGED <<store, conn, txn, dqs, handles, closedBy, loadRes, nexec, lastExec, plan>>

Pipeline_unique_by == \E h \in BUILD_HEADS : Append_step(unique_by(h))
Pipeline_concat ==
    \E hs \in {<<"K", "V">>, <<"C">>}, nh \in {"C", "K"} : Append_step(concat(hs, nh, <<"_">>))
Pipeline_where_eq == \E h \in BUILD_HEADS, v \in BUILD_VALS : Append_step(where_eq(h, v))
Pipeline_where_ne == \E h \in BUILD_HEADS, v \in BUILD_VALS : Append_step(where_ne(h, v))
Pipeline_where_all_eq ==
    \E m \in {<<>>, << <<"K", TextV(<<"x">>)>>, <<"W", NullV>> >>} : Append_step(where_all_eq(m))
Pipeline_where_in ==
    \E h \in BUILD_HEADS, vs \in {<<>>, <<TextV(<<"x">>)>>} : Append_step(where_in(h, vs))
Pipeline_where_between ==
    \E h \in {"D"}, b \in {NullV, TextV(<<>>)} : Append_step(where_between(h, b, NullV))
Pipeline_unknown == Append_step(unknown_step)

\* plan = build_pipeline_sql(pipeline, return_heads=ret)
Build(ret) ==
    /\ plan' = build_pipeline_sql(pipeline, ret)
    /\ UNCHANGED <<store, conn, txn, dqs, handles, closedBy, loadRes, nexec, lastExec, pipeline>>

InitBuild ==
    /\ store = EmptyStore
    /\ conn = "none"
    /\ txn = FALSE
    /\ dqs = FALSE
    /\ handles = {}
    /\ closedBy = "none"
    /\ loadRes = NoLoad
    /\ nexec = 0
    /\ lastExec = NoExec
    /\ pipeline = <<>>
    /\ plan = NoPlan

NextBuild ==
    \/ Pipeline_unique_by
    \/ Pipeline_concat
    \/ Pipeline_where_eq
    \/ Pipeline_where_ne
    \/ Pipeline_where_all_eq
    \/ Pipeline_where_in
    \/ Pipeline_where_between
    \/ Pipeline_unknown
    \/ \E ret \in BUILD_RETS : Build(ret)

SpecBuild == InitBuild /\ [][NextBuild]_vars

\* ------------------------------------------------------------------ one query
\* A TableSQL wrapped around a table of any content (TableSQL(conn, name)),
\* and pipelines executed on it.
MaxRows == 3       \* rows of the queried table

QUERY_ROWS ==
    { [line |-> 0, v |-> <<IntV(o), k>>] : o \in {1, 2}, k \in {NullV, TextV(<<>>), TextV(<<"x">>)} }
QUERY_TABLES == { MkTable(Cols(<<"__src_rownum", "K">>), rs) : rs \in SeqsUpTo(QUERY_ROWS, MaxRows) }
QUERY_STEPS ==
    { <<where_ne("K", TextV(<<"x">>))>>, <<where_ne("K", TextV(<<>>))>>, <<where_ne("K", NullV)>>,
      <<where_eq("K", NullV)>>, <<where_eq("K", TextV(<<"x">>))>>, <<unique_by("K")>> }
CallerHandle == [name |-> "t_raw", owns |-> TRUE, by |-> "caller"]

InitQuery ==
    /\ store \in { [EmptyStore EXCEPT !["t_raw"] = t] : t \in QUERY_TABLES }
    /\ conn = "open"
    /\ txn = FALSE
    /\ dqs \in BOOLEAN
    /\ handles = {CallerHandle}
    /\ closedBy = "none"
    /\ loadRes = NoLoad
    /\ nexec = 0
    /\ lastExec = NoExec
    /\ pipeline = <<>>
    /\ plan = NoPlan

\* a first query on the table, then a second one with the same output list,
\* on the table again or on the result of the first
NextQuery ==
    \/ \E st \in QUERY_STEPS, ret \in {NoRet, Ret(<<"K">>)} :
          nexec = 0 /\ apply_pipeline(CallerHandle, st, ret, "t_flt")
    \/ \E st \in QUERY_STEPS, h \in handles :
          nexec = 1 /\ apply_pipeline(h, st, lastExec.ret, "t_uq")

SpecQuery == InitQuery /\ [][NextQuery]_vars
\* ------------------------------------------------------------------ where_in alone
\* The tables of the queries above, and a pipeline of one where_in step over
\* none, one or two values.
IN_VALS == {TextV(<<>>), TextV(<<"x">>), TextV(<<"y">>)}
IN_STEPS ==
    { <<where_in("K", vs)>> : vs \in SeqsUpTo(IN_VALS, 2) }

NextIn ==
    \E st \in IN_STEPS, ret \in {NoRet, Ret(<<"K">>)} :
        nexec = 0 /\ apply_pipeline(CallerHandle, st, ret, "t_flt")

SpecIn == InitQuery /\ [][NextIn]_vars

\* ------------------------------------------------------------------ concat alone
\* A table of two text columns A and B holding NULL, '', 'x' and ' x', and a
\* pipeline of one concat step executed on it, without an output list and
\* with output lists that name the new column, the ordinal and __rid.
MaxConcatRows == 2

CONCAT_VALS == {NullV, TextV(<<>>), TextV(<<"x">>), TextV(<<" ", "x">>)}
CONCAT_ROWS(o) == { [line |-> 0, v |-> <<IntV(o), a, b>>] : a \in CONCAT_VALS, b \in CONCAT_VALS }
CONCAT_TABLES ==
    { MkTable(Cols(<<"__src_rownum", "A", "B">>), rs) :
        rs \in { q \in SeqsUpTo(CONCAT_ROWS(1) \cup CONCAT_ROWS(2), MaxConcatRows) :
                    \A k \in 1..Len(q) : q[k].v[1] = IntV(k) } }
CONCAT_STEPS ==
    { <<concat(<<"A", "B">>, "C", <<"_">>)>>, <<concat(<<"B", "A">>, "C", <<"_">>)>>,
      <<concat(<<"A", "B">>, "C", <<>>)>>, <<concat(<<"A">>, "C", <<"_">>)>>,
      <<concat(<<"A", "B">>, "A", <<"_">>)>> }
CONCAT_RETS == {NoRet, Ret(<<"C", "A">>), Ret(<<"__rid", "A", "__src_rownum", "C">>)}

InitConcat ==
    /\ store \in { [EmptyStore EXCEPT !["t_raw"] = t] : t \in CONCAT_TABLES }
    /\ conn = "open"
    /\ txn = FALSE
    /\ dqs \in BOOLEAN
    /\ handles = {CallerHandle}
    /\ closedBy = "none"
    /\ loadRes = NoLoad
    /\ nexec = 0
    /\ lastExec = NoExec
    /\ pipeline = <<>>
    /\ plan = NoPlan

NextConcat ==
    \E st \in CONCAT_STEPS, ret \in CONCAT_RETS :
        nexec = 0 /\ apply_pipeline(CallerHandle, st, ret, "t_flt")

SpecConcat == InitConcat /\ [][NextConcat]_vars

\* ------------------------------------------------------------------ where_between alone
\* A table of one column D holding dates written with '-' and with '/', a
\* date with a time, and values that are no date (NULL, '', 'x', '2020-1-2'),
\* and a pipeline of one where_between step executed on it.
MaxRangeRows == 2

D(str) == TextV(str)
DATE_0102 == <<"2", "0", "2", "0", "-", "0", "1", "-", "0", "2">>
DATE_0103 == <<"2", "0", "2", "0", "-", "0", "1", "-", "0", "3">>
DATE_0102_SLASH == <<"2", "0", "2", "0", "/", "0", "1", "/", "0", "2">>
RANGE_VALS ==
    { NullV, D(<<>>), D(<<"x">>), D(<<"2", "0", "2", "0", "-", "1", "-", "2">>),
      D(DATE_0102), D(DATE_0102_SLASH), D(<<" ">> \o DATE_0102),
      D(DATE_0103 \o <<" ", "1", "0", ":", "0", "0">>) }
RANGE_TABLES ==
    { MkTable(Cols(<<"__src_rownum", "D">>), rs) :
        rs \in { q \in SeqsUpTo({[line |-> 0, v |-> <<IntV(o), x>>] : o \in 1..MaxRangeRows, x \in RANGE_VALS},
                                 MaxRangeRows) :
                    \A k \in 1..Len(q) : q[k].v[1] = IntV(k) } }
RANGE_BOUNDS == {NullV, D(<<>>), D(<<" ">>), D(DATE_0102), D(DATE_0103), D(DATE_0102_SLASH)}
RANGE_STEPS == { <<where_between("D", a, b)>> : a \in RANGE_BOUNDS, b \in RANGE_BOUNDS }

InitRange ==
    /\ store \in { [EmptyStore EXCEPT !["t_raw"] = t] : t \in RANGE_TABLES }
    /\ conn = "open"
    /\ txn = FALSE
    /\ dqs \in BOOLEAN
    /\ handles = {CallerHandle}
    /\ closedBy = "none"
    /\ loadRes = NoLoad
    /\ nexec = 0
    /\ lastExec = NoExec
    /\ pipeline = <<>>
    /\ plan = NoPlan

NextRange ==
    \E st \in RANGE_STEPS, ret \in {NoRet, Ret(<<"D">>)} :
        nexec = 0 /\ apply_pipeline(CallerHandle, st, ret, "t_flt")

SpecRange == InitRange /\ [][NextRange]_vars

\* ------------------------------------------------------------------ the normalizer alone
\* A raw table of one data column (a flag column, a date column, the company
\* name column or a plain text column) is normalized, its normalized table is
\* normalized again, and the flag filter is run on a normalized table.
MaxChars == 2      \* characters of an enumerated raw cell

NORM_CHARS == {" ", "\t", "-", "1", "?", "y", "Y", "n", "/", "T"}
NORM_SAMPLES ==
    { <<"0">>, <<"x">>, <<"o", "f", "f">>, <<"y", "e", "s">>, <<"Y", "E", "S">>, <<"n", "o">>, <<"N", "o">>, <<"o", "n">>,
      <<"N", "/", "A">>, <<"N", ".", "A", ".">>, <<"e", "r", "r", "o", "r">>,
      <<"x", " ", " ", "x">>, <<"x", " ", "\t", "x">>, <<"x", "\n", "x">>,
      <<"A", ",", " ", "I", "n", "c", ".">>, <<"x", " ", ",", " ", "x">>,
      <<"2", "0", "2", "0", "/", "1", "/", "2", " ", "1", "0", ":", "0", "0">>,
      <<"2", "0", "2", "0", "0", "1", "0", "2">>,
      <<"2", "0", "2", "0", "-", "0", "1", "-", "0", "2", "T", "1", "0">>,
      <<"2", "0", "2", "0", ".", "1", "2", ".", "3", "1">>,
      <<"2", "0", "2", "0", "-", "1", "-", "2">>,
      <<"1", "/", "2", "/", "2", "0", "2", "0">>,
      <<"2", "0", "2", "0", "-", "0", "1", "-", "0", "2">> }
NORM_TEXTS == SeqsUpTo(NORM_CHARS, MaxChars) \cup NORM_SAMPLES
NORM_COLS == {"Ess_To_Standard", "IPRD_SIGNATURE_DATE", "COMP_LEGAL_NAME", "K"}

\* the raw rows: one enumerated cell, alone or followed by "yes", or the
\* three cells yes, no, YES
NormRow(o, x) == [line |-> o, v |-> <<IntV(o), TextV(x)>>]
NORM_ROWS ==
    { <<NormRow(1, x)>> : x \in NORM_TEXTS }
    \cup { <<NormRow(1, x), NormRow(2, <<"y", "e", "s">>)>> : x \in NORM_TEXTS }
    \cup { <<NormRow(1, <<"y", "e", "s">>), NormRow(2, <<"n", "o">>), NormRow(3, <<"Y", "E", "S">>)>> }
NORM_TABLES ==
    { MkTable(Cols(<<"__src_rownum", c>>), rs) : c \in NORM_COLS, rs \in NORM_ROWS }

InitNorm ==
    /\ store \in { [EmptyStore EXCEPT !["t_raw"] = t] : t \in NORM_TABLES }
    /\ conn = "open"
    /\ txn = FALSE
    /\ dqs \in BOOLEAN
    /\ handles = {CallerHandle}
    /\ closedBy = "none"
    /\ loadRes = NoLoad
    /\ nexec = 0
    /\ lastExec = NoExec
    /\ pipeline = <<>>
    /\ plan = NoPlan

NextNorm ==
    \/ Normalizer_apply(CallerHandle, "t_norm", 0)
    \/ Normalizer_apply(NormHandle("t_norm"), "t_flt", 0)
    \/ \E c \in BOOL01_COLS_EXPLICIT \cap NORM_COLS :
          apply_pipeline(NormHandle("t_norm"), <<where_eq(c, IntV(1))>>, NoRet, "t_uq")

SpecNorm == InitNorm /\ [][NextNorm]_vars
\* ================================================================== properties
IsApply == lastExec.stage \in {"apply_plan", "apply_pipeline"}
Ordinal(tbl, k) == tbl.rows[k].v[FirstIdx(tbl.cols, "__src_rownum")]
LoadedTable == store[loadRes.table]

KeyOf(tbl, k, head) == tbl.rows[k].v[FirstIdx(tbl.cols, head)]
FirstOfKey(tbl, k, head) ==
    \A j \in 1..Len(tbl.rows) :
        (j # k /\ KeyOf(tbl, j, head) = KeyOf(tbl, k, head)) =>
            \/ Ordinal(tbl, k).i < Ordinal(tbl, j).i
            \/ (Ordinal(tbl, k) = Ordinal(tbl, j) /\ k < j)
C2_DedupKeepsFirstPerKey ==
    (/\ IsApply /\ lastExec.ok
     /\ Len(lastExec.steps) = 1 /\ lastExec.steps[1].op = "unique_by"
     /\ FirstIdx(lastExec.input.cols, lastExec.steps[1].head) > 0) =>
        LET inp == lastExec.input
            res == store[lastExec.dest]
            head == lastExec.steps[1].head
        IN /\ Len(res.rows) =
                 Cardinality({KeyOf(inp, k, head) : k \in 1..Len(inp.rows)})
           /\ {Ordinal(res, k) : k \in 1..Len(res.rows)} =
                 {Ordinal(inp, k) : k \in {j \in 1..Len(inp.rows) : FirstOfKey(inp, j, head)}}

C4_SourceUntouched ==
    (IsApply /\ lastExec.input.ex) => store[lastExec.src] = lastExec.input

\* C5 (as stated): when the compiled query fails, no table of the destination
\* name exists afterwards, whatever drop_if_exists is.
C5_FailedPlanLeavesDestinationAbsent ==
    (IsApply /\ lastExec.err = "query") => ~store[lastExec.dest].ex

\* C5 (amended): when the compiled query fails, apply_plan returns no table;
\* afterwards no table of the destination name exists if drop_if_exists is
\* true or none existed before, and with drop_if_exists false a table that
\* already had the destination name is left exactly as it was.
C5_FailedPlanLeavesNoPartialTable ==
    (IsApply /\ lastExec.err = "query") =>
        /\ ~lastExec.ok
        /\ IF lastExec.drop \/ ~lastExec.destBefore.ex
           THEN ~store[lastExec.dest].ex
           ELSE store[lastExec.dest] = lastExec.destBefore

\* a failed query whose destination existed before and was dropped
C5_Witness ==
    /\ IsApply /\ lastExec.err = "query"
    /\ lastExec.drop /\ lastExec.destBefore.ex /\ lastExec.dest # lastExec.src
    /\ ~store[lastExec.dest].ex

\* C6: every column of a returned plan's output list is selected by the base
\* sub-query or is the new column of a concat step of the pipeline.
ConcatNames(steps) == {steps[k].newhead : k \in {j \in 1..Len(steps) : steps[j].op = "concat"}}
C7_OrdinalPreserved ==
    loadRes.status = "ok" =>
        \A n \in TableNames :
            store[n].ex =>
                /\ FirstIdx(store[n].cols, "__src_rownum") > 0
                /\ \A k \in 1..Len(store[n].rows) :
                      Ordinal(store[n], k) = IntV(store[n].rows[k].line)

\* a normalized table whose rows skip an ordinal, and a pipeline result
C7_Witness ==
    /\ loadRes.status = "ok" /\ loadRes.bad > 0
    /\ store["t_norm"].ex /\ Len(store["t_norm"].rows) > 1
    /\ store["t_flt"].ex /\ Len(store["t_flt"].rows) > 0
    /\ lastExec.stage = "normalize" /\ lastExec.src = "t_flt"

\* C8: the connection is closed only by close() on the loader's table; tables
\* returned by the normalizer or the executor do not own it.
C8_OnlyOwnerCloses ==
    /\ conn = "closed" => closedBy = "loader"
    /\ \A h \in handles : h.by \in {"normalizer", "executor"} => ~h.owns

\* the table of the last executor call was closed and the connection is open
C8_Witness ==
    /\ conn = "open"
    /\ IsApply /\ lastExec.ok /\ PlanHandle(lastExec.dest) \notin handles
    /\ \E h \in handles : h.by = "loader"

\* C9: with a head naming a column absent from the header, from_csv fails
\* with an error listing every missing name, before any data row is read,
\* and the store is as before (no table dropped, created or written).
HeadMissing(r) ==
    {r.head.cols[k] : k \in 1..Len(r.head.cols)} \ {r.header[k] : k \in 1..Len(r.header)}
C9_MissingHeadFailsFirst ==
    /\ (loadRes.status \notin {"none", "empty_file"} /\ loadRes.head.given
        /\ HeadMissing(loadRes) # {}) => loadRes.status = "missing_head"
    /\ loadRes.status = "missing_head" =>
          /\ SeqToSet(loadRes.missing) = HeadMissing(loadRes)
          /\ loadRes.lines = 0
          /\ store = loadRes.before
          /\ handles = {}

\* a rejected head with two missing names, on a database holding the table
C9_Witness ==
    /\ loadRes.status = "missing_head"
    /\ Len(loadRes.missing) = 2
    /\ loadRes.total > 0
    /\ store["t_raw"] = OldTable

\* C10: a data row that cannot be decoded or split is counted as bad and
\* skipped; the load goes on to the end of the file and does not raise.
C10_MalformedRowSkipped ==
    loadRes.status \notin {"none", "empty_file", "missing_head"} =>
        /\ loadRes.status = "ok"
        /\ loadRes.lines = loadRes.total
        /\ loadRes.bad = loadRes.malformed

\* C11: when from_csv or Normalizer.apply aborts after it created its
\* destination table, the destination is afterwards absent or holds every
\* row the stage had to write, and no transaction is left open on the
\* connection.
C11_AbortLeavesNoPartialTable ==
    /\ loadRes.status = "row_exception" =>
          /\ ~txn
          /\ \/ ~store[loadRes.table].ex
             \/ Len(store[loadRes.table].rows) = loadRes.total - loadRes.malformed
    /\ (lastExec.stage = "normalize" /\ lastExec.err \in {"insert", "begin"}) =>
          /\ ~txn
          /\ \/ ~store[lastExec.dest].ex
             \/ Len(store[lastExec.dest].rows) = Len(lastExec.input.rows)

\* C12: normalizing the output of a normalization gives the same columns, the
\* same number of rows and, for every row and column, the same value.
C12_NormalizeIdempotent ==
    (/\ lastExec.stage = "normalize" /\ lastExec.ok
     /\ lastExec.src = "t_norm" /\ lastExec.dest = "t_flt"
     /\ lastExec.prev.stage = "normalize" /\ lastExec.prev.ok
     /\ lastExec.prev.dest = "t_norm") =>
        /\ store["t_flt"].cols = lastExec.input.cols
        /\ Len(store["t_flt"].rows) = Len(lastExec.input.rows)
        /\ \A k \in 1..Len(lastExec.input.rows) :
              store["t_flt"].rows[k].v = lastExec.input.rows[k].v

\* a second normalization of a two-row table whose first pass rewrote a cell
C12_Witness ==
    /\ lastExec.stage = "normalize" /\ lastExec.ok
    /\ lastExec.src = "t_norm" /\ lastExec.dest = "t_flt"
    /\ Len(store["t_flt"].rows) = 2
    /\ store["t_norm"].rows[1].v # store["t_raw"].rows[1].v
    /\ store["t_flt"].rows[1].v[2] = TextV(<<"2", "0", "2", "0", "-", "0", "1", "-", "0", "2">>)

\* C13: in a flag column the normalizer stores 1 when the cleaned raw value
\* is, ignoring case, one of 1, yes, y, true, t, on; 0 when it is one of 0,
\* no, n, false, f, off; -1 for every other value; and where_eq(column, 1)
\* on the normalized table returns exactly the rows whose raw value was a yes
\* token.
YES_TOKENS ==
    { <<"1">>, <<"y", "e", "s">>, <<"y">>, <<"t", "r", "u", "e">>, <<"t">>, <<"o", "n">> }
NO_TOKENS ==
    { <<"0">>, <<"n", "o">>, <<"n">>, <<"f", "a", "l", "s", "e">>, <<"f">>, <<"o", "f", "f">> }
Cleaned(v) == LowerText(data_normalization_method(v.s))
FlagOf(v) ==
    IF Cleaned(v) \in YES_TOKENS THEN 1 ELSE IF Cleaned(v) \in NO_TOKENS THEN 0 ELSE -1
C13_FlagMapping ==
    \A c \in BOOL01_COLS_EXPLICIT :
        /\ (/\ lastExec.stage = "normalize" /\ lastExec.ok /\ lastExec.src = "t_raw"
            /\ FirstIdx(lastExec.input.cols, c) > 0) =>
               LET raw == lastExec.input
                   res == store[lastExec.dest]
               IN /\ Len(res.rows) = Len(raw.rows)
                  /\ \A k \in 1..Len(raw.rows) :
                        KeyOf(res, k, c) = IntV(FlagOf(KeyOf(raw, k, c)))
        /\ (/\ IsApply /\ lastExec.ok /\ lastExec.src = "t_norm"
            /\ lastExec.steps = <<where_eq(c, IntV(1))>>
            /\ FirstIdx(store["t_raw"].cols, c) > 0) =>
               {Ordinal(store[lastExec.dest], k) : k \in 1..Len(store[lastExec.dest].rows)} =
               {Ordinal(store["t_raw"], k) :
                    k \in {j \in 1..Len(store["t_raw"].rows) :
                              Cleaned(KeyOf(store["t_raw"], j, c)) \in YES_TOKENS}}

\* raw yes, no, YES normalized to 1, 0, 1, and the filter returns rows 1 and 3
C13_Witness ==
    /\ IsApply /\ lastExec.ok /\ lastExec.src = "t_norm"
    /\ lastExec.steps = <<where_eq("Ess_To_Standard", IntV(1))>>
    /\ Len(store["t_raw"].rows) = 3
    /\ FirstIdx(store["t_norm"].cols, "Ess_To_Standard") > 0
    /\ [k \in 1..3 |-> KeyOf(store["t_norm"], k, "Ess_To_Standard")] = <<IntV(1), IntV(0), IntV(1)>>
    /\ [k \in 1..Len(store["t_uq"].rows) |-> Ordinal(store["t_uq"], k)] = <<IntV(1), IntV(3)>>

\* C14: on one table and one column, where_eq(column, None) and
\* where_ne(column, None) return disjoint sets of rows whose union is the
\* whole table.
RowsOf(tbl) == {[o |-> Ordinal(tbl, k), key |-> KeyOf(tbl, k, "K")] : k \in 1..Len(tbl.rows)}
NullPair(a, b) ==
    \E c \in {"K"} : {a, b} = {<<where_eq(c, NullV)>>, <<where_ne(c, NullV)>>}
C14_NullPartition ==
    (/\ IsApply /\ lastExec.ok /\ lastExec.prev.ok
     /\ lastExec.src = lastExec.prev.src /\ lastExec.ret = lastExec.prev.ret
     /\ NullPair(lastExec.steps, lastExec.prev.steps)) =>
        LET a == store[lastExec.prev.dest]
            b == store[lastExec.dest]
            inp == lastExec.input
        IN /\ Len(a.rows) + Len(b.rows) = Len(inp.rows)
           /\ RowsOf(a) \cap RowsOf(b) = {}
           /\ RowsOf(a) \cup RowsOf(b) = RowsOf(inp)

\* both queries ran on a table with a null row, an empty-text row and another
C14_Witness ==
    /\ IsApply /\ lastExec.ok /\ lastExec.prev.ok
    /\ lastExec.src = lastExec.prev.src
    /\ lastExec.prev.steps = <<where_eq("K", NullV)>>
    /\ lastExec.steps = <<where_ne("K", NullV)>>
    /\ Len(store["t_flt"].rows) = 1 /\ Len(store["t_uq"].rows) = 2
    /\ {RowsOf(lastExec.input)} # {{}}
    /\ {r.key : r \in RowsOf(lastExec.input)} = {NullV, TextV(<<>>), TextV(<<"x">>)}

\* C15: unique_by(K) executed on the table that unique_by(K) produced returns
\* the same rows: as many rows, with the same ordinals and the same values.
VisibleRows(tbl) == [k \in 1..Len(tbl.rows) |-> [o |-> Ordinal(tbl, k), key |-> KeyOf(tbl, k, "K")]]
DedupTwice ==
    /\ IsApply /\ lastExec.ok /\ lastExec.prev.ok
    /\ lastExec.prev.stage = "apply_pipeline" /\ lastExec.src = lastExec.prev.dest
    /\ lastExec.steps = <<unique_by("K")>> /\ lastExec.prev.steps = lastExec.steps
C15_DedupIdempotent ==
    DedupTwice =>
        /\ Len(store[lastExec.dest].rows) = Len(lastExec.input.rows)
        /\ VisibleRows(store[lastExec.dest]) = VisibleRows(lastExec.input)

\* the first run dropped a row, the second ran on what was left
C15_Witness ==
    /\ DedupTwice
    /\ Len(store["t_raw"].rows) = 3
    /\ Len(lastExec.input.rows) = 2
    /\ Len(store[lastExec.dest].rows) = 2

\* C16: concat(columns, new, sep) keeps every row, leaves the columns that
\* were visible unchanged, and sets new to the values of the input columns
\* (NULL as the empty string) joined in order with sep between every adjacent
\* pair.
AsText(v) == CASE v.t = "null" -> <<>> [] v.t = "int" -> IntStr(v.i) [] OTHER -> v.s
RECURSIVE Joined(_, _)
Joined(parts, sep) ==
    IF parts = <<>> THEN <<>>
    ELSE IF Len(parts) = 1 THEN parts[1]
    ELSE parts[1] \o sep \o Joined(Tail(parts), sep)
HasCol(tbl, name) == FirstIdx(tbl.cols, name) > 0
ConcatDone ==
    /\ IsApply /\ lastExec.ok
    /\ Len(lastExec.steps) = 1 /\ lastExec.steps[1].op = "concat"
ConcatKeepsRows ==
    LET inp == lastExec.input
        res == store[lastExec.dest]
    IN /\ Len(res.rows) = Len(inp.rows)
       /\ \A k \in 1..Len(inp.rows), c \in {"__src_rownum", "A", "B"} :
             (HasCol(res, c) /\ c # lastExec.steps[1].newhead) => KeyOf(res, k, c) = KeyOf(inp, k, c)
ConcatValue(Part(_)) ==
    LET inp == lastExec.input
        res == store[lastExec.dest]
        st == lastExec.steps[1]
    IN /\ HasCol(res, st.newhead)
       /\ \A k \in 1..Len(inp.rows) :
             KeyOf(res, k, st.newhead) =
                TextV(Joined([j \in 1..Len(st.heads) |-> Part(KeyOf(inp, k, st.heads[j]))], st.sep))
C16_ConcatJoinsValues ==
    ConcatDone => (ConcatKeepsRows /\ ConcatValue(LAMBDA v : AsText(v)))

\* C16 (amended): the same, for a new name that is not the name of a source
\* column, with each value stripped of its leading and trailing spaces before
\* it is joined.
C16_ConcatJoinsTrimmedValues ==
    (ConcatDone /\ ~HasCol(lastExec.input, lastExec.steps[1].newhead)) =>
        (ConcatKeepsRows /\ ConcatValue(LAMBDA v : StripSet(AsText(v), {" "})))

\* two rows, A = '' and B = '' in one of them, joined with "_"
C16_Witness ==
    /\ ConcatDone
    /\ lastExec.steps = <<concat(<<"A", "B">>, "C", <<"_">>)>>
    /\ Len(lastExec.input.rows) = 2
    /\ KeyOf(lastExec.input, 1, "A") = TextV(<<>>) /\ KeyOf(lastExec.input, 1, "B") = TextV(<<>>)
    /\ KeyOf(store[lastExec.dest], 1, "C") = TextV(<<"_">>)
    /\ KeyOf(lastExec.input, 2, "A") = TextV(<<" ", "x">>)

\* C17: where_between(column, start, end) keeps exactly the rows whose date
\* (after '/' is replaced by '-') lies within the bounds, both inclusive; a
\* bound that is None or blank is not enforced; the rule is the same with two
\* bounds, one bound or none.
RangeDone ==
    /\ IsApply /\ lastExec.ok
    /\ Len(lastExec.steps) = 1 /\ lastExec.steps[1].op = "where_between"
Blank(b) == b.t = "null" \/ StripSet(AsText(b), {" ", "\t", "\n"}) = <<>>
InBounds(x, st) ==
    LET dt == ColDate(x)
    IN /\ dt.t # "null"
       /\ ~Blank(st.start) => DateLe(SqlDate(AsText(st.start)), dt)
       /\ ~Blank(st.end) => DateLe(dt, SqlDate(AsText(st.end)))
SrcRows(tbl) == [k \in 1..Len(tbl.rows) |-> [o |-> Ordinal(tbl, k), key |-> KeyOf(tbl, k, "D")]]
C17_DateRangeOneRule ==
    RangeDone =>
        SrcRows(store[lastExec.dest]) =
            SelectSeq(SrcRows(lastExec.input), LAMBDA r : InBounds(r.key, lastExec.steps[1]))

\* C18: where_in(column, values) keeps exactly the rows whose value of the
\* column is one of the values; with no values the result has no rows.
InDone ==
    /\ IsApply /\ lastExec.ok
    /\ Len(lastExec.steps) = 1 /\ lastExec.steps[1].op = "where_in"
ColNames(tbl) == [j \in 1..Len(tbl.cols) |-> tbl.cols[j].n]
Renamed(tbl) == \E j \in 1..Len(tbl.cols) : tbl.cols[j].k # 0
Times(q, x) == Cardinality({j \in 1..Len(q) : q[j] = x})
Listed(ret) == SelectSeq(ret.cols, LAMBDA h : h \notin {"__rid", "__src_rownum"})
C19_OutputColumns ==
    (ConcatDone /\ ~HasCol(lastExec.input, lastExec.steps[1].newhead)) =>
        LET res == store[lastExec.dest]
            inp == lastExec.input
        IN IF lastExec.ret.given
           THEN /\ ColNames(res) = <<"__src_rownum">> \o Listed(lastExec.ret)
                /\ ~Renamed(res)
                /\ Times(ColNames(res), "__rid") = 0
                /\ Times(ColNames(res), "__src_rownum") = 1
           ELSE /\ ColNames(res) = <<"__rid">> \o ColNames(inp) \o <<lastExec.steps[1].newhead>>
                /\ ~Renamed(res)

\* the output list names __rid, a source column, the ordinal and the new
\* column, in that order
C19_Witness ==
    /\ ConcatDone
    /\ lastExec.ret = Ret(<<"__rid", "A", "__src_rownum", "C">>)
    /\ ColNames(store[lastExec.dest]) = <<"__src_rownum", "A", "C">>
    /\ Len(store[lastExec.dest].rows) = 2

\* C20: building a pipeline that holds a step of unknown operation fails with
\* an error and gives no plan, with and without an output list and wherever
\* the step stands; no plan is ever built from such a pipeline.
HasUnknown(steps) == \E k \in 1..Len(steps) : steps[k].op \notin KnownOps
C20_UnknownOpFailsBuild ==
    [][(plan' # plan /\ HasUnknown(pipeline)) => (~plan'.ok /\ plan'.err = "unknown_op")]_vars

\* built without an output list, the unknown step standing last
C20_Witness ==
    /\ plan.err = "unknown_op" /\ ~plan.ok /\ ~plan.ret.given
    /\ Len(pipeline) = 2
    /\ pipeline[1].op \in KnownOps /\ pipeline[2].op \notin KnownOps

\* C21: a built plan holds one sub-query per step of the pipeline, in append
\* order; sub-query i reads sub-query i-1 (the base for i = 1) and the final
\* select reads the last one (the base for an empty pipeline); an append
\* leaves the steps appended before as they were.
ChainOf(p, steps) ==
    /\ Len(p.ctes) = Len(steps)
    /\ \A i \in 1..Len(steps) :
          p.ctes[i].name = i /\ p.ctes[i].step = steps[i] /\ p.ctes[i].from = i - 1
    /\ p.final_from = Len(steps)
C21_OneSubQueryPerStepInOrder ==
    [][/\ (plan' # plan /\ plan'.ok) => ChainOf(plan', pipeline)
       /\ pipeline' # pipeline =>
             (Len(pipeline') = Len(pipeline) + 1 /\ SubSeq(pipeline', 1, Len(pipeline)) = pipeline)]_vars

\* a plan of two different steps, the second reading the first
C21_Witness ==
    /\ plan.ok /\ Len(plan.ctes) = 2 /\ plan.steps = pipeline
    /\ plan.ctes[1].step.op = "concat" /\ plan.ctes[2].step.op = "unique_by"
    /\ plan.ctes[2].from = 1 /\ plan.final_from = 2

\* C22: with an output list the base sub-query selects the ordinal, every
\* column a filter, a unique_by or a concat input refers to and every listed
\* column, each less the new names of the concat steps, and nothing else;
\* without an output list it selects all columns of the source.
StepHeads(st) ==
    CASE st.op = "concat" -> SeqToSet(st.heads)
      [] st.op = "where_all_eq" -> {st.mapping[j][1] : j \in 1..Len(st.mapping)}
      [] OTHER -> {st.head}
Referenced(steps) == UNION {StepHeads(steps[k]) : k \in 1..Len(steps)}
LastStep(e) == e.steps[Len(e.steps)]
TwoInOnePipeline ==
    /\ Len(lastExec.steps) = 2
    /\ lastExec.steps[1].op = "unique_by" /\ lastExec.steps[2].op = "unique_by"
SecondOnStored ==
    /\ Len(lastExec.steps) = 1 /\ lastExec.steps[1].op = "unique_by"
    /\ lastExec.prev.ok /\ lastExec.prev.stage \in {"apply_plan", "apply_pipeline"}
    /\ lastExec.prev.dest = lastExec.src /\ ~lastExec.prev.ret.given
    /\ Len(lastExec.prev.steps) = 1 /\ lastExec.prev.steps[1].op = "unique_by"
KeyValues(tbl, head) == {KeyOf(tbl, k, head) : k \in 1..Len(tbl.rows)}
C23_SecondDedupByOwnRank ==
    (/\ IsApply /\ lastExec.ok /\ (TwoInOnePipeline \/ SecondOnStored)
     /\ HasCol(store[lastExec.dest], LastStep(lastExec).head)) =>
        LET res == store[lastExec.dest]
            h == LastStep(lastExec).head
        IN /\ \A i, j \in 1..Len(res.rows) : KeyOf(res, i, h) = KeyOf(res, j, h) => i = j
           /\ SecondOnStored => KeyValues(res, h) = KeyValues(lastExec.input, h)

\* C24: in a flag column an empty value is normalized to the integer 0.
FlagNormalized(c) ==
    /\ lastExec.stage = "normalize" /\ lastExec.ok /\ lastExec.src = "t_raw"
    /\ FirstIdx(lastExec.input.cols, c) > 0
EmptyFlagBecomes(n) ==
    \A c \in BOOL01_COLS_EXPLICIT :
        FlagNormalized(c) =>
            \A k \in 1..Len(lastExec.input.rows) :
                Cleaned(KeyOf(lastExec.input, k, c)) = <<>> =>
                    KeyOf(store[lastExec.dest], k, c) = IntV(n)
VisibleAt(p, i, h) ==
    \/ h \in SeqToSet(p.base_sel)
    \/ \E j \in 1..(i - 1) : p.steps[j].op = "concat" /\ p.steps[j].newhead = h
C25_ReferencedColumnsVisible ==
    (plan.ok /\ plan.ret.given) =>
        \A i \in 1..Len(plan.steps) : \A h \in StepHeads(plan.steps[i]) : VisibleAt(plan, i, h)

\* C26: filters and unique_by leave the visible columns as they are and only
\* concat adds one: without an output list the columns of the result are
\* __rid, the columns of the source table and the new columns of the concat
\* steps.
C26_OnlyConcatAddsColumns ==
    (IsApply /\ lastExec.ok /\ ~lastExec.ret.given) =>
        SeqToSet(ColNames(store[lastExec.dest])) =
            {"__rid"} \cup SeqToSet(ColNames(lastExec.input)) \cup ConcatNames(lastExec.steps)

\* C27: build_pipeline_sql never raises the validation error of the output
\* list, whatever the pipeline and the list.
C27_ValidationNeverRejects == plan.err # "validation"

\* a plan built with a list of two columns that no step refers to or produces
C27_Witness ==
    /\ plan.ok /\ plan.ret = Ret(<<"C", "V">>)
    /\ plan.steps # <<>> /\ ConcatNames(plan.steps) = {}
    /\ plan.base_sel = <<"__src_rownum", "K", "C", "V">>

\* C28: after a normalization every column of INT_COLS_EXPLICIT holds 1, 0
\* or -1 in every row: each of these columns is a flag column as well, so
\* parse_int_or_error converts no column.
C28_IntegerColumnsHoldFlags ==
    /\ INT_COLS_EXPLICIT \ FORCE_TEXT_COLS \subseteq BOOL01_COLS_EXPLICIT
    /\ (lastExec.stage = "normalize" /\ lastExec.ok) =>
          \A c \in INT_COLS_EXPLICIT \ FORCE_TEXT_COLS :
              HasCol(store[lastExec.dest], c) =>
                  \A k \in 1..Len(store[lastExec.dest].rows) :
                      KeyOf(store[lastExec.dest], k, c) \in {IntV(1), IntV(0), IntV(-1)}

\* a raw flag column holding the text 11, stored as -1
C28_Witness ==
    /\ lastExec.stage = "normalize" /\ lastExec.ok /\ lastExec.src = "t_raw"
    /\ HasCol(lastExec.input, "Ess_To_Standard")
    /\ KeyOf(lastExec.input, 1, "Ess_To_Standard") = TextV(<<"1", "1">>)
    /\ KeyOf(store[lastExec.dest], 1, "Ess_To_Standard") = IntV(-1)

\* What the sink wrote, by kind: positions in the trace of the last load.
EventsAt(kind) == { i \in 1..Len(loadRes.events) : loadRes.events[i].kind = kind }
\* The loop of the same load with a sink that never fails.
QuietRead ==
    ReadRows(loadRes.file, IF loadRes.head.given THEN loadRes.head.cols ELSE loadRes.file.header,
             loadRes.batch, loadRes.progress_every, GoodSink,
             [n |-> 0, bad |-> 0, buf |-> <<>>, rows |-> <<>>, raised |-> FALSE, events |-> <<>>])
ReachedLoop == loadRes.status \notin {"none", "empty_file", "missing_head"}

\* C29: in a load with a progress interval n > 0 the sink writes a progress
\* line only at line counts that are positive multiples of n; a load that
\* runs to its end writes at most one done line, exactly one when the done
\* call writes, as the last line, after the final commit and every progress
\* line, with the final line and bad-row counts, and a load that stops early
\* writes none; whatever the sink does, the load ends as it does with a sink
\* that never fails: same status, same counters, same stored rows.
C29_ProgressAtMultiplesThenOneDone ==
    (ReachedLoop /\ loadRes.progress_every > 0) =>
        /\ \A i \in EventsAt("progress") :
              /\ loadRes.events[i].lines > 0
              /\ loadRes.events[i].lines % loadRes.progress_every = 0
              /\ loadRes.events[i].lines <= loadRes.total
        /\ Cardinality(EventsAt("done")) <= 1
        /\ loadRes.status # "ok" => EventsAt("done") = {} /\ EventsAt("commit") = {}
        /\ loadRes.status = "ok" =>
              LET last == Len(loadRes.events)
                  c == IF loadRes.sink.done.wrote THEN last - 1 ELSE last
              IN /\ EventsAt("commit") = {c}
                 /\ EventsAt("progress") = 1..(c - 1)
                 /\ EventsAt("done") = (c + 1)..last
                 /\ loadRes.sink.done.wrote =>
                       /\ loadRes.events[last].lines = loadRes.lines
                       /\ loadRes.events[last].bad = loadRes.bad
                       /\ loadRes.lines = loadRes.total
        /\ loadRes.status = (IF QuietRead.raised THEN "row_exception" ELSE "ok")
        /\ loadRes.lines = QuietRead.n /\ loadRes.bad = QuietRead.bad
        /\ LoadedTable.rows = (IF QuietRead.raised THEN QuietRead.rows
                               ELSE QuietRead.rows \o QuietRead.buf)

\* two good lines, interval 2, a sink that works: one progress line at line
\* 2, the commit, one done line
C29_Witness ==
    /\ loadRes.status = "ok" /\ loadRes.progress_every = 2
    /\ loadRes.total = 2 /\ loadRes.bad = 0
    /\ loadRes.events = << [kind |-> "progress", lines |-> 2, bad |-> 0],
                           [kind |-> "commit", lines |-> 2, bad |-> 0],
                           [kind |-> "done", lines |-> 2, bad |-> 0] >>

\* how often a character occurs in the sample of the last guess
Occurs(ch) == Len(SelectSeq(loadRes.sample, LAMBDA x : x = ch))

\* C30: guess_sep returns one of tab, ';', ',', '|' that no other of the four
\* outnumbers in the sample, and it returns tab whenever no other outnumbers
\* tab (also when none of the four occurs).
C30_GuessSepHighestCountTabOnTie ==
    loadRes.sep # "" =>
        /\ loadRes.sep \in {"\t", ";", ",", "|"}
        /\ \A ch \in {"\t", ";", ",", "|"} : Occurs(ch) <= Occurs(loadRes.sep)
        /\ (\A ch \in {";", ",", "|"} : Occurs(ch) <= Occurs("\t")) => loadRes.sep = "\t"

\* one tab after one ';' and one ',': all three share the highest count
C30_Witness ==
    /\ loadRes.sample = <<";", ",", "\t">>
    /\ loadRes.sep = "\t"
====
